---- MODULE Spec2Model ----
(***************************************************************************)
(* A model of the training orchestration of torchdeepretina/training.py:   *)
(* the hyperparameter sweep (hyper_search, fill_hyper_q), the Trainer      *)
(* (train, stop_early, train_loop, retinotopic_loop) and get_optim_objs.   *)
(*                                                                         *)
(* Numbers that are floats in the program (accuracies, tolerances,         *)
(* learning rates) are small integers here; only their order and their     *)
(* differences matter to the control flow.                                 *)
(***************************************************************************)
EXTENDS Integers, Sequences, FiniteSets, TLC

VARIABLES
    self,       \* the Trainer: early_stopping, tolerance, prev_acc, stop_count
    hyper_q,    \* hyper_search: the queue of jobs still to run
    hyps,       \* the hyperparameter dict of the job being trained
    pc,         \* the position of the single thread of control
    loc,        \* the local variables of train_loop / retinotopic_loop
    model,      \* the model: its weights and the channels that are zero in it
    optimizer,  \* the optimizer: the learning rate of its param groups
    files,      \* what has been written: result lines, checkpoints
    hist,       \* history of the run, written by the actions, never read by them
    stopin,     \* SpecStop: nothing but the calls made so far
    optin,      \* SpecOptim: the dict handed to get_optim_objs and what it returned
    sweep,      \* SpecSweep: the arguments of hyper_search and the queue it built
    mapin,      \* SpecMap: best_one2one_mapping's argument, dicts and call stack
    inspin      \* SpecInspect: the process and the model around utils.inspect

vars == <<self, hyper_q, hyps, pc, loc, model, optimizer, files, hist,
          stopin, optin, sweep, mapin, inspin>>

----------------------------------------------------------------------------
(* Bounds of the model. *)

MaxPatience == 1      \* Spec: early_stopping ranges over 0..MaxPatience
MaxAcc == 1           \* validation accuracies range over 0..MaxAcc
MaxCalls == 6         \* SpecStop: number of stop_early calls followed
MaxJobs == 2          \* hyper_search: the queue holds 1..MaxJobs jobs
MaxEpochs == 2        \* hyps['n_epochs'] ranges over 1..MaxEpochs
MaxIntvl == 2         \* hyps['prune_intvl'] ranges over 1..MaxIntvl
MaxFolds == 2         \* hyps['n_cv_folds'] ranges over 1..MaxFolds
NBatches == 2         \* batches that train_sample() yields per epoch (n_loops)
NLayers == 1          \* conv layers of the model that can be pruned
NChans == 2           \* channels per conv layer
MaxLr == 1            \* hyps['lr']; the scheduler lowers the rate by steps of 1

(* Python's None, and a value that is present: an option is a sequence of   *)
(* length 0 or 1.                                                           *)
None == <<>>
Some(v) == <<v>>
Val(o) == o[1]

Accs == 0..MaxAcc
Tolerances == {0, 1}

----------------------------------------------------------------------------
(* Trainer.__init__ and Trainer.stop_early. *)

\* Trainer.__init__: stop_count is not created before the first observation.
TrainerInit(es, tol) ==
    [early_stopping |-> es, tolerance |-> tol, prev_acc |-> None,
     stop_count |-> None]

\* stop_early without the test of lines 72-73.
StopEarlyNoDisable(t, acc) ==
    IF t.prev_acc = None
    THEN [ret |-> FALSE,
          self |-> [t EXCEPT !.prev_acc = Some(acc), !.stop_count = Some(0)]]
    ELSE IF acc - Val(t.prev_acc) < t.tolerance
            /\ Val(t.stop_count) + 1 >= t.early_stopping
    THEN [ret |-> TRUE, self |-> [t EXCEPT !.stop_count = Some(Val(@) + 1)]]
    ELSE [ret |-> FALSE,
          self |-> [t EXCEPT !.prev_acc = Some(acc), !.stop_count = Some(0)]]

\* Trainer.stop_early(acc) on trainer state t: the value returned and the
\* trainer state it leaves.  Lines 82-84 are not under an else: they run
\* whenever line 81 did not return.
stop_early(t, acc) ==
    IF t.early_stopping <= 0 THEN [ret |-> FALSE, self |-> t]
    ELSE IF t.prev_acc = None
    THEN [ret |-> FALSE,
          self |-> [t EXCEPT !.prev_acc = Some(acc), !.stop_count = Some(0)]]
    ELSE IF acc - Val(t.prev_acc) < t.tolerance
            /\ Val(t.stop_count) + 1 >= t.early_stopping
    THEN [ret |-> TRUE, self |-> [t EXCEPT !.stop_count = Some(Val(@) + 1)]]
    ELSE [ret |-> FALSE,
          self |-> [t EXCEPT !.prev_acc = Some(acc), !.stop_count = Some(0)]]

----------------------------------------------------------------------------
(* SpecStop: stop_early alone, fed every sequence of metric values. *)

NoStopIn == [calls |-> 0, ret |-> FALSE, nfail |-> 0, improved |-> FALSE]

\* One call of stop_early(acc).  stopin records the call: what it returned,
\* whether acc improved on the stored value by the tolerance, and how many
\* calls in a row have failed to.
Observe(acc) ==
    LET r == stop_early(self, acc)
        first == self.prev_acc = None
        fails == ~first /\ acc - Val(self.prev_acc) < self.tolerance
    IN  /\ stopin.calls < MaxCalls
        /\ self' = r.self
        /\ stopin' = [calls |-> stopin.calls + 1,
                      ret |-> r.ret,
                      nfail |-> IF fails THEN stopin.nfail + 1 ELSE 0,
                      improved |-> ~first /\ ~fails]
        /\ UNCHANGED <<hyper_q, hyps, pc, loc, model, optimizer, files, hist,
                       optin, sweep, mapin, inspin>>

----------------------------------------------------------------------------
(* get_optim_objs. *)

\* The names bound in the globals of training.py that the lookups of
\* get_optim_objs can meet (lines 5, 13, 16, 21, 34): globals()[name]
\* raises KeyError for any other name.
Globals ==
    {"PoissonNLLLoss", "MSELoss", "ReduceLROnPlateau", "MultiStepLR",
     "StepLR", "NullScheduler", "Queue", "Trainer"}

\* The globals that can be called without arguments (line 892): the two
\* losses, NullScheduler, Queue and Trainer; the torch schedulers need an
\* optimizer and raise TypeError.
NoArgCallable == {"PoissonNLLLoss", "MSELoss", "NullScheduler", "Queue", "Trainer"}

\* get_optim_objs(hyps, model): h is the dict (lossfxn is None when the key
\* is absent).  err is the exception raised, "" when it returns; loss_fn and
\* scheduler name the classes of the objects built; hyps is the dict it
\* leaves (lossfxn and scheduler are written back).
get_optim_objs(h) ==
    LET lossfxn == IF h.lossfxn = None THEN "PoissonNLLLoss" ELSE Val(h.lossfxn)
        h1 == [h EXCEPT !.lossfxn = Some(lossfxn)]
        sched == IF h.scheduler \in {"ReduceLROnPlateau", "MultiStepLR"}
                 THEN h.scheduler ELSE "NullScheduler"
    IN  IF lossfxn \notin Globals
        THEN [err |-> "KeyError", loss_fn |-> "", scheduler |-> "", hyps |-> h1]
        ELSE IF ~(lossfxn = "PoissonNLLLoss" /\ h.log_poisson /= None)
                /\ lossfxn \notin NoArgCallable
        THEN [err |-> "TypeError", loss_fn |-> "", scheduler |-> "", hyps |-> h1]
        ELSE [err |-> "", loss_fn |-> lossfxn, scheduler |-> sched,
              hyps |-> [h1 EXCEPT !.scheduler = sched]]

----------------------------------------------------------------------------
(* The jobs of a sweep, and the objects one training works on. *)

TestEpochs == 2           \* line 147
TestPruneIntvl == 2       \* line 148
TestBatchBreak == 5       \* line 222
TestRetinoEpochs == 4     \* line 445

Layers == 1..NLayers      \* utils.get_conv_layer_names(model)[:-1]
Chans == 1..NChans

\* The folds asked for: cross_val, cross_val_idx (None when it holds None)
\* and n_cv_folds.
DefaultCv == <<FALSE, Some(0), 1>>
OtherCv ==
    {<<TRUE, None, n>> : n \in 1..MaxFolds}
    \cup {<<FALSE, None, 1>>, <<FALSE, Some(MaxFolds), MaxFolds>>}
CvOf(h) == <<h.cross_val, h.cross_val_idx, h.n_cv_folds>>

\* The hyperparameter dicts a queue entry can be, as far as train_loop,
\* retinotopic_loop and get_optim_objs read them.  An option is None when
\* the key is absent (open_layers, lossfxn, log_poisson) or holds None
\* (cross_val_idx).  prune_layers is the list as a set; 'all' takes the
\* branch of [] at line 149.  Options that no statement reads when prune is
\* false, or when the run is retinotopic, are held at one value, and the
\* options are varied around a few runs rather than all at once.
TrainHyps ==
    { h \in [exp_name : {"exp", "test"},
             retinotopic : BOOLEAN,
             n_epochs : 1..MaxEpochs,
             prune : BOOLEAN,
             reset_sd : BOOLEAN,
             reset_lr : BOOLEAN,
             prune_intvl : 1..MaxIntvl,
             prune_layers : {{}, {1}},
             open_layers : {None},
             cross_val : BOOLEAN,
             cross_val_idx : {None, Some(0), Some(MaxFolds)},
             n_cv_folds : 1..MaxFolds,
             scheduler : {"ReduceLROnPlateau", "none"},
             lossfxn : {Some("PoissonNLLLoss"), Some("nll")},
             log_poisson : {None},
             lr : {MaxLr},
             save_every_epoch : {None, Some(TRUE), Some(FALSE)}] :
        /\ CvOf(h) \in {DefaultCv} \cup OtherCv
        /\ (h.save_every_epoch /= None =>
                h.exp_name = "exp" /\ ~h.retinotopic /\ ~h.prune
                /\ CvOf(h) = DefaultCv /\ h.scheduler = "none"
                /\ h.lossfxn = Some("PoissonNLLLoss"))
        /\ (~h.prune => ~h.reset_sd /\ ~h.reset_lr /\ h.prune_intvl = 1
                        /\ h.prune_layers = {})
        /\ (h.prune_layers /= {} \/ (h.exp_name = "test" /\ h.prune) =>
                ~h.reset_sd /\ ~h.reset_lr /\ h.prune_intvl = 1
                /\ h.n_epochs = 1 /\ h.scheduler = "none")
        /\ (CvOf(h) /= DefaultCv =>
                h.n_epochs = 1 /\ h.scheduler = "none"
                /\ ~h.reset_lr /\ h.prune_layers = {})
        /\ (h.exp_name = "test" => CvOf(h) = DefaultCv /\ h.prune_layers = {})
        /\ (h.retinotopic => ~h.reset_sd /\ ~h.reset_lr /\ h.prune_intvl = 1
                             /\ h.prune_layers = {} /\ CvOf(h) = DefaultCv
                             /\ h.scheduler = "none")
        /\ (h.lossfxn = Some("nll") =>
                h.exp_name = "exp" /\ ~h.prune /\ CvOf(h) = DefaultCv
                /\ h.n_epochs = 1 /\ h.scheduler = "none") }

\* The checkpoints a run is started from.
StartPaths == {"pre_3/epoch_0", "pre_3/epoch_1"}

\* The dicts of TrainHyps with the recording get_data loads: the files of
\* dataset "intact" always load, the test split of "damaged" may fail to;
\* and with startpt, None when the key is absent or holds None.
JobHyps ==
    { h @@ [dataset |-> "intact", startpt |-> None] : h \in TrainHyps }
    \cup { h @@ [dataset |-> "damaged", startpt |-> None] :
              h \in { g \in TrainHyps :
                        /\ g.exp_name = "exp" /\ ~g.prune
                        /\ g.scheduler = "none"
                        /\ g.lossfxn = Some("PoissonNLLLoss")
                        /\ g.save_every_epoch = None } }
    \cup { h @@ [dataset |-> "intact", startpt |-> Some(path)] :
              h \in { g \in TrainHyps :
                        /\ g.exp_name = "exp" /\ ~g.retinotopic
                        /\ g.n_epochs = 1 /\ g.prune_intvl = 1
                        /\ g.prune_layers = {} /\ ~g.reset_lr
                        /\ CvOf(g) = DefaultCv
                        /\ g.scheduler = "none"
                        /\ g.lossfxn = Some("PoissonNLLLoss")
                        /\ g.save_every_epoch = None },
              path \in StartPaths }

NoHyps == [exp_name |-> ""]

\* The locals of train_loop before any is bound: None is an unbound name.
NoLoc ==
    [cv_hi |-> 0, cv_idx |-> 0, epoch |-> -1, n_epochs |-> 0,
     hyps_prune |-> FALSE, reset_sd |-> FALSE, reset_lr |-> FALSE,
     stop_training |-> FALSE, stop |-> FALSE, i |-> 0,
     epoch_loss |-> "finite", avg_loss |-> "", val_loss |-> "",
     val_acc |-> None, cur_lr |-> None, zero_dict |-> None,
     prune_dict |-> None, og_state_dict |-> "", scheduler |-> "",
     test_data |-> None, avg_pearson |-> 0,
     results |-> None]

NoModel == [weights |-> "", zeroed |-> {}]
NoOptimizer == [lr |-> 0]
NoFiles ==
    [result_lines |-> 0, skipped |-> 0, ckpts |-> 0, last_ckpt |-> None,
     kept |-> {}]
NoHist ==
    [total |-> 0, jobs |-> 0, returned |-> 0, index_errors |-> 0, exc |-> "",
     epochs_run |-> 0, all_finite |-> TRUE, nan_seen |-> FALSE,
     snapshot |-> "", prune_done |-> None, test_failed |-> FALSE,
     last_eval |-> None, inits |-> 0,
     fed |-> [monitor |-> <<>>, scheduler |-> <<>>]]

\* The history of one fold starts afresh with the fold.
NewFold(hi) ==
    [hi EXCEPT !.exc = "", !.epochs_run = 0, !.all_finite = TRUE,
               !.nan_seen = FALSE, !.snapshot = "", !.prune_done = None,
               !.last_eval = None, !.inits = 0,
               !.fed = [monitor |-> <<>>, scheduler |-> <<>>]]

\* A zero_dict as the set of (layer, channel) pairs it holds.
MaskPairs(zd) == { <<l, c>> \in (DOMAIN zd) \X Chans : c \in zd[l] }

----------------------------------------------------------------------------
(* tdrio: the checkpoints a run can start from. *)

\* A Python value of a hyperparameter dict: its type with its number (int,
\* bool) or its text (str; float and list by their repr).
IntV(n) == [t |-> "int", n |-> n, s |-> ""]
NoneV == [t |-> "NoneType", n |-> 0, s |-> ""]
BoolV(b) == [t |-> "bool", n |-> IF b THEN 1 ELSE 0, s |-> ""]
StrV(s) == [t |-> "str", n |-> 0, s |-> s]
FloatV(s) == [t |-> "float", n |-> 0, s |-> s]
ListV(s) == [t |-> "list", n |-> 0, s |-> s]

\* tdrio.load_checkpoint(path), as far as lines 135-136, 169-170 and 971
\* read the checkpoint: the checkpoints a run saves all hold the run's
\* exp_name and exp_num (lines 381-383), and the paths met here are
\* checkpoints of run 3 of "pre".  They hold the weights and the optimizer
\* state of that run, whose rate the scheduler had lowered to 0; the
\* checkpoint of epoch 0 has no zero_dict, the later ones hold a zero_dict
\* with channel 1 of every layer (None: the key is absent).
load_checkpoint(path) ==
    [exp_name |-> StrV("pre"), exp_num |-> IntV(3),
     model_state_dict |-> "pre", optim_state_dict |-> [lr |-> 0],
     zero_dict |-> IF path = "pre_3/epoch_0" THEN None
                   ELSE Some([d \in Layers |-> {1}])]

----------------------------------------------------------------------------
(* torch: state dicts. *)

\* model.state_dict() (line 138): the dict holds tensors that share their
\* storage with the model's parameters, so what is read through it is the
\* weights as they are when it is read.
StateDictOf(m) == "live"

\* model.load_state_dict(sd): the values read through sd are copied into the
\* parameters.
LoadStateDict(m, sd) ==
    IF sd = "live" THEN m ELSE [weights |-> sd, zeroed |-> {}]

\* tdrprune.zero_chans(model, zero_dict, zero_bias): the channels of
\* zero_dict are set to zero in the model.
zero_chans(m, zd) == [m EXCEPT !.zeroed = @ \cup MaskPairs(zd)]

\* optimizer.step(): every parameter is updated in place.
OptimizerStep(m) == [weights |-> "trained", zeroed |-> {}]

\* An optimizer step that is not followed by zero_chans.
StepNoZero(m, zd) == OptimizerStep(m)

\* Lines 211-213: the optimizer step and, after it, zero_chans on the
\* current zero_dict.
StepAndZero(m, zd) == zero_chans(OptimizerStep(m), zd)

----------------------------------------------------------------------------
(* The pruning controller. *)

\* A new prune_dict that starts from an empty mask.
NewPruneDictEmpty(zd, cur_lr) ==
    [zero_dict |-> [d \in DOMAIN zd |-> {}], cur_chan |-> -1,
     cur_layer |-> None, prev_acc |-> -1, prev_lr |-> cur_lr]

\* The prune_dict train_loop builds at lines 292-298.
NewPruneDict(zd, cur_lr) ==
    [zero_dict |-> zd, cur_chan |-> -1, cur_layer |-> None, prev_acc |-> -1,
     prev_lr |-> cur_lr]

\* tdrprune.prune_channels(model, hyps, data_sample, val_acc, lr, **prune_dict):
\* the prune_dicts it can return, each with the hyps['open_layers'] it
\* leaves.  With no open layer nothing is pruned.  Otherwise it either adds
\* one channel of an open layer to the zero_dict (the layer is retired when
\* all its channels are pruned) and records the accuracy it saw, or it
\* retires an open layer whose pruning cost too much accuracy and leaves
\* prev_acc alone.  prev_lr is the rate it was handed.
prune_channels(open, pd, val_acc, lr) ==
    IF open = {}
    THEN {[pd |-> [pd EXCEPT !.prev_lr = lr], open_layers |-> open]}
    ELSE { [pd |-> [pd EXCEPT !.zero_dict[l] = @ \cup {c},
                              !.cur_layer = Some(l), !.cur_chan = c,
                              !.prev_acc = val_acc, !.prev_lr = lr],
            open_layers |-> IF pd.zero_dict[l] \cup {c} = Chans
                            THEN open \ {l} ELSE open] :
             <<l, c>> \in { x \in open \X Chans : x[2] \notin pd.zero_dict[x[1]] } }
         \cup
         { [pd |-> [pd EXCEPT !.prev_lr = lr], open_layers |-> open \ {l}] :
             l \in open }

----------------------------------------------------------------------------
(* hyper_search and Trainer.train. *)

Untouched == UNCHANGED <<stopin, optin, sweep, mapin, inspin>>

InLoop ==
    pc \in {"fold", "batch", "validate", "prune", "save", "final",
            "r_setup", "r_epoch", "r_final"}

\* A range of folds that is range(n_cv_folds) whatever cross_val is.
CrossValRangeAll(h) == [lo |-> 0, hi |-> h.n_cv_folds]

\* Lines 99-105: cross_val_range, as the first fold and the fold after the
\* last.
CrossValRange(h) ==
    IF h.cross_val THEN [lo |-> 0, hi |-> h.n_cv_folds]
    ELSE LET idx == IF h.cross_val_idx = None THEN 0 ELSE Val(h.cross_val_idx)
             lo == IF h.n_cv_folds - 1 < idx THEN h.n_cv_folds - 1 ELSE idx
         IN  [lo |-> lo, hi |-> lo + 1]

\* hyper_search, lines 694-698, and Trainer.train, lines 55-60: the next job
\* is taken from the queue and its training method is entered.  What the
\* entry holds is drawn here, when it is taken.  train_loop's lines 93-105
\* fix the range of folds.
HyperQGet ==
    /\ pc = "hyper_loop"
    /\ hyper_q /= <<>>
    /\ hyper_q' = Tail(hyper_q)
    /\ \E h \in JobHyps :
         /\ hyps' = h
         /\ IF h.retinotopic
            THEN /\ pc' = "r_setup"
                 /\ loc' = NoLoc
            ELSE /\ pc' = "fold"
                 /\ loc' = [NoLoc EXCEPT !.cv_idx = CrossValRange(h).lo,
                                         !.cv_hi = CrossValRange(h).hi]
    /\ hist' = [NewFold(hist) EXCEPT !.jobs = @ + 1, !.test_failed = FALSE]
    /\ files' = [files EXCEPT !.ckpts = 0, !.last_ckpt = None, !.kept = {}]
    /\ UNCHANGED <<self, model, optimizer>>
    /\ Untouched

\* hyper_search, line 694: the queue is empty and the sweep ends.
HyperDone ==
    /\ pc = "hyper_loop"
    /\ hyper_q = <<>>
    /\ pc' = "done"
    /\ UNCHANGED <<self, hyper_q, hyps, loc, model, optimizer, files, hist>>
    /\ Untouched

\* Trainer.train catching nothing.
CatchNone(exc) == "crashed"

\* What Trainer.train does with an exception of the training method
\* (lines 59-63): "train_return" when it catches it, "crashed" when the
\* exception leaves train and hyper_search.
CatchTo(exc) == IF exc = "IndexError" THEN "train_return" ELSE "crashed"

\* The training method raises exc: its frame, with its locals, its model
\* and its optimizer, is left.
Raise(exc, h) ==
    /\ pc' = CatchTo(exc)
    /\ hyps' = h
    /\ loc' = NoLoc
    /\ model' = NoModel
    /\ optimizer' = NoOptimizer
    /\ hist' = [NewFold(hist) EXCEPT
                  !.exc = exc,
                  !.index_errors = IF exc = "IndexError" THEN @ + 1 ELSE @]
    /\ UNCHANGED <<self, hyper_q, files>>
    /\ Untouched

\* An IndexError is raised somewhere in train_loop or retinotopic_loop (by
\* the data loading, the model or the pruning code they call).
RaiseIndexError ==
    /\ InLoop
    /\ Raise("IndexError", hyps)

\* A write of a result line whatever train returned.
WriteResultAlways(f, results) == [f EXCEPT !.result_lines = @ + 1]

\* The write of a result line at lines 699-703.
WriteResult(f, results) ==
    IF results /= None THEN [f EXCEPT !.result_lines = @ + 1]
    ELSE [f EXCEPT !.skipped = @ + 1]

\* hyper_search, lines 698-707: train has returned; a result that is not
\* None is written to the results file, a None is reported as skipped.
TrainReturn ==
    /\ pc = "train_return"
    /\ files' = WriteResult(files, loc.results)
    /\ pc' = "hyper_loop"
    /\ loc' = NoLoc
    /\ hyps' = NoHyps
    /\ hist' = [hist EXCEPT !.returned = @ + 1]
    /\ UNCHANGED <<self, hyper_q, model, optimizer>>
    /\ Untouched

----------------------------------------------------------------------------
(* Trainer.train_loop. *)

\* The snapshot of line 138, kept for the rollback of line 316.
Snapshot(m) == StateDictOf(m)

\* The number of epochs before pruning starts (lines 161-163).
WarmupEpochs(h) == IF h.prune /\ h.reset_sd THEN h.prune_intvl ELSE h.n_epochs

\* A loop test that does not look at hyps_prune.
StopAtEpochAlways(epoch, n_epochs, hyps_prune) == epoch >= n_epochs

\* The loop test of line 179.
StopAtEpoch(epoch, n_epochs, hyps_prune) == epoch >= n_epochs /\ ~hyps_prune

\* Lines 177-191: the head of the next epoch, on the locals l.  avg_loss,
\* val_loss, val_acc, avg_pearson and stop keep the values of the epoch
\* before, which lines 226-268 overwrite before anything reads them: they
\* are dropped.
EpochHead(l) ==
    [l EXCEPT !.epoch = @ + 1,
              !.stop_training = StopAtEpoch(l.epoch + 1, l.n_epochs, l.hyps_prune),
              !.i = 0,
              !.epoch_loss = "finite",
              !.avg_loss = "", !.val_loss = "", !.val_acc = None,
              !.avg_pearson = 0,
              !.stop = FALSE]

\* Lines 860-872: the test data get_data returns: the loaded split, or
\* None when loading it raised anything, which the bare except swallows.
get_data(loaded) == IF loaded THEN Some("test") ELSE None

\* Whether loadexpt can return the test split of hyps['dataset'].
TestSplitLoads(h) == IF h.dataset = "intact" THEN {TRUE} ELSE BOOLEAN

\* A zero_dict that starts empty whatever the checkpoint holds.
StartZeroDictEmpty(h) == [d \in h.prune_layers |-> {}]

\* Lines 165-170: the zero_dict a fold starts with: empty for every prune
\* layer, or the zero_dict of the checkpoint of hyps['startpt'] if it has
\* one.
StartZeroDict(h) ==
    IF h.startpt /= None /\ load_checkpoint(Val(h.startpt)).zero_dict /= None
    THEN Val(load_checkpoint(Val(h.startpt)).zero_dict)
    ELSE [d \in h.prune_layers |-> {}]

\* Lines 106-191: the set-up of fold loc.cv_idx: data, model, optimization
\* objects, the state of the checkpoint of hyps['startpt'], the snapshot
\* for the rollback, the zero_dict; and the head of epoch 0.  Loading the
\* test split succeeds or fails.
FoldSetup ==
    /\ pc = "fold"
    /\ \E loaded \in TestSplitLoads(hyps) :
       LET o == get_optim_objs([hyps EXCEPT !.cross_val_idx = Some(loc.cv_idx)])
           h2 == IF o.hyps.exp_name = "test"
                 THEN [o.hyps EXCEPT !.n_epochs = TestEpochs,
                                     !.prune_intvl = TestPruneIntvl]
                 ELSE o.hyps
           h3 == IF h2.prune_layers = {}
                 THEN [h2 EXCEPT !.prune_layers = Layers,
                                 !.open_layers = Some(Layers)]
                 ELSE h2
           m0 == [weights |-> "init", zeroed |-> {}]
           m == IF h3.startpt /= None
                THEN LoadStateDict(m0, load_checkpoint(Val(h3.startpt)).model_state_dict)
                ELSE m0
       IN  IF o.err /= ""
           THEN Raise(o.err, o.hyps)
           ELSE /\ hyps' = h3
                /\ model' = m
                /\ optimizer' = IF h3.startpt /= None
                                THEN load_checkpoint(Val(h3.startpt)).optim_state_dict
                                ELSE [lr |-> h3.lr]
                /\ loc' = EpochHead([loc EXCEPT
                       !.og_state_dict = Snapshot(m),
                       !.scheduler = o.scheduler,
                       !.hyps_prune = h3.prune,
                       !.reset_sd = h3.reset_sd,
                       !.reset_lr = h3.reset_lr /\ o.scheduler /= "NullScheduler",
                       !.n_epochs = WarmupEpochs(h3),
                       !.zero_dict = Some(StartZeroDict(h3)),
                       !.test_data = get_data(loaded),
                       !.epoch = -1,
                       !.stop_training = FALSE])
                /\ hist' = [NewFold(hist) EXCEPT
                       !.snapshot = m.weights,
                       !.epochs_run = 1,
                       !.test_failed = @ \/ ~loaded]
                /\ files' = [files EXCEPT !.ckpts = 0, !.kept = {}]
                /\ pc' = "batch"
                /\ UNCHANGED <<self, hyper_q>>
                /\ Untouched

\* The batch loop without the test of line 220.
BatchBreakNoNan(epoch_loss, exp_name, i) ==
    exp_name = "test" /\ i >= TestBatchBreak

\* Lines 220-223: whether the batch loop is left after a batch.
BatchBreak(epoch_loss, exp_name, i) ==
    epoch_loss = "nonfinite" \/ (exp_name = "test" /\ i >= TestBatchBreak)

\* Lines 194-223: one training batch: the optimizer step, the re-zeroing of
\* the pruned channels, the accumulation of the loss, which is finite or
\* not.
TrainBatch ==
    /\ pc = "batch"
    /\ \E loss \in {"finite", "nonfinite"} :
         LET el == IF loc.epoch_loss = "nonfinite" \/ loss = "nonfinite"
                   THEN "nonfinite" ELSE "finite"
             leave == BatchBreak(el, hyps.exp_name, loc.i)
                      \/ loc.i + 1 >= NBatches
         IN  /\ model' = StepAndZero(model, Val(loc.zero_dict))
             /\ loc' = [loc EXCEPT !.epoch_loss = el,
                                   !.i = IF leave THEN @ ELSE @ + 1]
             /\ hist' = [hist EXCEPT
                    !.nan_seen = @ \/ el = "nonfinite",
                    !.all_finite = @ /\ el = "finite"]
             /\ pc' = IF leave THEN "validate" ELSE "batch"
    /\ UNCHANGED <<self, hyper_q, hyps, optimizer, files>>
    /\ Untouched

\* An evaluation on the test set whether or not there is test data.
TestPearsonAlways(test_data) == 1

\* Lines 268-282: avg_pearson of an epoch: 0 without test data, else the
\* mean correlation on the test set, for which 1 stands.
TestPearson(test_data) == IF test_data /= None THEN 1 ELSE 0

\* scheduler.step(val_acc) (line 264): the rates the scheduler can leave.
\* NullScheduler never changes the rate; the others keep it or lower it.
SchedulerStep(scheduler, lr) ==
    IF scheduler = "NullScheduler" \/ lr = 0 THEN {lr} ELSE {lr, lr - 1}

\* A validation that never steps the scheduler.
ValidationFeedsNoScheduler(fed, val_acc) ==
    [fed EXCEPT !.monitor = Append(@, val_acc)]

\* Lines 259 and 264: what the validation of an epoch hands to stop_early
\* and to scheduler.step, added to what the epoch has handed them so far.
ValidationFeeds(fed, val_acc) ==
    [monitor |-> Append(fed.monitor, val_acc),
     scheduler |-> Append(fed.scheduler, val_acc)]

\* Lines 226-285: the validation, the early-stopping observation, the
\* scheduler step and the evaluation on the test set.
Validate ==
    /\ pc = "validate"
    /\ \E val_loss \in {"finite", "nonfinite"}, val_acc \in Accs,
          lr \in SchedulerStep(loc.scheduler, optimizer.lr) :
         LET r == stop_early(self, val_acc)
         IN  /\ self' = r.self
             /\ optimizer' = [optimizer EXCEPT !.lr = lr]
             /\ loc' = [loc EXCEPT !.avg_loss = loc.epoch_loss,
                                   !.val_loss = val_loss,
                                   !.val_acc = Some(val_acc),
                                   !.avg_pearson = TestPearson(loc.test_data),
                                   !.stop = r.ret]
             /\ hist' = [hist EXCEPT
                    !.all_finite = @ /\ val_loss = "finite",
                    !.fed = ValidationFeeds(@, val_acc)]
    /\ pc' = "prune"
    /\ UNCHANGED <<hyper_q, hyps, model, files>>
    /\ Untouched

\* A pruning evaluation in every epoch after the warmup, whatever the
\* interval.
PruneNowNoIntvl(l, h) == l.hyps_prune /\ l.epoch >= l.n_epochs - 1

\* Lines 288-290: whether this epoch ends with a pruning evaluation.
PruneNow(l, h) ==
    /\ l.hyps_prune /\ l.epoch >= l.n_epochs - 1
    /\ (l.epoch - l.n_epochs) % h.prune_intvl = 0

\* Line 291: whether the evaluation starts from a new prune_dict.
PruneInit(l, h) == l.epoch <= l.n_epochs + h.prune_intvl

\* Line 329: the zero_dict train_loop goes on with.
ZeroDictAfter(pd) == pd.zero_dict

\* Lines 337-340 without the new budget: the loop is left.
BudgetNone(stop, l, h) ==
    [stop_training |-> stop, hyps_prune |-> l.hyps_prune, n_epochs |-> l.n_epochs]

\* Lines 314 and 337-340: stop is len(hyps['open_layers']) == 0.  With
\* reset_sd the loop goes on without pruning for hyps['n_epochs'] epochs.
Budget(stop, l, h) ==
    IF stop /\ l.reset_sd
    THEN [stop_training |-> FALSE, hyps_prune |-> FALSE,
          n_epochs |-> h.n_epochs + l.epoch]
    ELSE [stop_training |-> stop, hyps_prune |-> l.hyps_prune,
          n_epochs |-> l.n_epochs]

\* The rate after a pruning evaluation when line 324 is left out.
LrAfterPruneNoReset(reset_sd, reset_lr, pd, val_acc, h) ==
    IF reset_sd THEN h.lr ELSE pd.prev_lr

\* Lines 315-328: the rate of every param group after a pruning
\* evaluation that returned the prune_dict pd: hyps['lr'] with reset_sd,
\* else the prev_lr of pd; and hyps['lr'] again when reset_lr holds and the
\* prev_acc of pd is not this epoch's val_acc.
LrAfterPrune(reset_sd, reset_lr, pd, val_acc, h) ==
    IF reset_lr /\ pd.prev_acc /= val_acc THEN h.lr
    ELSE IF reset_sd THEN h.lr ELSE pd.prev_lr

\* Lines 290: no pruning evaluation in this epoch.
PruneSkip ==
    /\ pc = "prune"
    /\ ~PruneNow(loc, hyps)
    /\ pc' = "save"
    /\ UNCHANGED <<self, hyper_q, hyps, loc, model, optimizer, files, hist>>
    /\ Untouched

\* Lines 290-340: a pruning evaluation.  cur_lr is read at line 297 before
\* line 302 binds it; hyps['open_layers'] is read at line 314.
PruneEval ==
    /\ pc = "prune"
    /\ PruneNow(loc, hyps)
    /\ IF PruneInit(loc, hyps) /\ loc.cur_lr = None
       THEN Raise("UnboundLocalError", hyps)
       ELSE IF hyps.open_layers = None
       THEN Raise("KeyError", hyps)
       ELSE
         LET init == PruneInit(loc, hyps)
             val_acc == IF init /\ hyps.exp_name = "test" THEN 0
                        ELSE Val(loc.val_acc)
             pd0 == IF init THEN NewPruneDict(Val(loc.zero_dict), Val(loc.cur_lr))
                    ELSE Val(loc.prune_dict)
             cur_lr == optimizer.lr
         IN  \E out \in prune_channels(Val(hyps.open_layers), pd0, val_acc, cur_lr) :
               LET pd == out.pd
                   stop == out.open_layers = {}
                   m1 == IF loc.reset_sd
                         THEN LoadStateDict(model, loc.og_state_dict)
                         ELSE model
                   lr2 == LrAfterPrune(loc.reset_sd, loc.reset_lr, pd,
                                       val_acc, hyps)
                   zd == ZeroDictAfter(pd)
                   b == Budget(stop, loc, hyps)
               IN  /\ hyps' = [hyps EXCEPT !.open_layers = Some(out.open_layers)]
                   /\ model' = zero_chans(m1, zd)
                   /\ optimizer' = [optimizer EXCEPT !.lr = lr2]
                   /\ loc' = [loc EXCEPT !.prune_dict = Some(pd),
                                         !.val_acc = Some(val_acc),
                                         !.cur_lr = Some(cur_lr),
                                         !.zero_dict = Some(zd),
                                         !.stop_training = b.stop_training,
                                         !.hyps_prune = b.hyps_prune,
                                         !.n_epochs = b.n_epochs]
                   /\ hist' = [hist EXCEPT
                          !.prune_done = IF stop /\ @ = None
                                         THEN Some(loc.epoch) ELSE @,
                          !.last_eval = Some(loc.epoch),
                          !.inits = IF init THEN @ + 1 ELSE @]
                   /\ pc' = "save"
                   /\ UNCHANGED <<self, hyper_q, files>>
                   /\ Untouched

\* A del_prev that is never set.
DelPrevNever(h) == FALSE

\* Lines 384-385 (and 599-600): del_prev, the flag passed to
\* tdrio.save_checkpoint.
DelPrev(h) == h.save_every_epoch /= None /\ ~Val(h.save_every_epoch)

\* tdrio.save_checkpoint(save_dict, save_folder, 'test', del_prev) on the
\* files f: the checkpoint of the epoch is written to the fold's folder;
\* with del_prev the checkpoint written before it is removed.  kept is the
\* set of epochs whose checkpoint the folder holds.
save_checkpoint(f, save_dict, del_prev) ==
    [f EXCEPT !.ckpts = @ + 1,
              !.last_ckpt = Some(save_dict),
              !.kept = IF del_prev THEN {save_dict.epoch}
                       ELSE @ \cup {save_dict.epoch}]

\* Line 390: whether the loop is left after the checkpoint.
LoopBreak(avg_loss, val_loss, stop) == avg_loss = "nonfinite" \/ stop

\* Lines 342-391: the log, the checkpoint of the epoch, and the test that
\* ends the loop; when the loop goes on, the loop test of line 177 and the
\* head of the next epoch.
Save ==
    /\ pc = "save"
    /\ LET l1 == [loc EXCEPT !.cur_lr = Some(optimizer.lr)]
           leave == LoopBreak(loc.avg_loss, loc.val_loss, loc.stop)
                    \/ loc.stop_training
       IN  /\ loc' = IF leave THEN l1 ELSE EpochHead(l1)
           /\ pc' = IF leave THEN "final" ELSE "batch"
           /\ hist' = IF leave THEN hist
                      ELSE [hist EXCEPT
                              !.epochs_run = @ + 1,
                              !.fed = [monitor |-> <<>>, scheduler |-> <<>>]]
    /\ files' = save_checkpoint(files,
                                [epoch |-> loc.epoch,
                                 cv_idx |-> loc.cv_idx,
                                 zero_dict |-> Val(loc.zero_dict),
                                 cur_lr |-> optimizer.lr,
                                 test_pearson |-> loc.avg_pearson,
                                 weights |-> model.weights,
                                 zeroed |-> model.zeroed],
                                DelPrev(hyps))
    /\ UNCHANGED <<self, hyper_q, hyps, model, optimizer>>
    /\ Untouched

\* Lines 394-412 and the loop of line 106: the summary of the fold; the
\* next fold, or the return of the last fold's results.  The next fold
\* builds its model and optimizer anew and binds every local before it
\* reads it, cur_lr excepted (line 297): the other locals are dropped.
FoldEnd ==
    /\ pc = "final"
    /\ LET results == Some([save_folder |-> loc.cv_idx,
                            Loss |-> loc.avg_loss,
                            ValAcc |-> Val(loc.val_acc),
                            ValLoss |-> loc.val_loss,
                            TestPearson |-> loc.avg_pearson,
                            zero_dict |-> loc.zero_dict])
       IN  IF loc.cv_idx + 1 < loc.cv_hi
           THEN /\ loc' = [NoLoc EXCEPT !.cv_idx = loc.cv_idx + 1,
                                        !.cv_hi = loc.cv_hi,
                                        !.cur_lr = loc.cur_lr]
                /\ pc' = "fold"
                /\ model' = NoModel
                /\ optimizer' = NoOptimizer
           ELSE /\ loc' = [NoLoc EXCEPT !.results = results]
                /\ pc' = "train_return"
                /\ model' = NoModel
                /\ optimizer' = NoOptimizer
    /\ UNCHANGED <<self, hyper_q, hyps, files, hist>>
    /\ Untouched

----------------------------------------------------------------------------
(* Trainer.retinotopic_loop. *)

\* Lines 420-450: the set-up of a retinotopic run.
RetinoSetup ==
    /\ pc = "r_setup"
    /\ \E loaded \in TestSplitLoads(hyps) :
       LET o == get_optim_objs(hyps)
           h2 == IF o.hyps.exp_name = "test"
                 THEN [o.hyps EXCEPT !.n_epochs = TestRetinoEpochs]
                 ELSE o.hyps
       IN  IF o.err /= ""
           THEN Raise(o.err, o.hyps)
           ELSE /\ hyps' = h2
                /\ model' = [weights |-> "init", zeroed |-> {}]
                /\ optimizer' = [lr |-> h2.lr]
                /\ loc' = [loc EXCEPT !.scheduler = o.scheduler,
                                      !.test_data = get_data(loaded),
                                      !.n_epochs = h2.n_epochs,
                                      !.epoch = -1,
                                      !.stop_training = FALSE]
                /\ files' = [files EXCEPT !.ckpts = 0, !.kept = {}]
                /\ hist' = [hist EXCEPT !.test_failed = @ \/ ~loaded]
                /\ pc' = "r_epoch"
                /\ UNCHANGED <<self, hyper_q>>
                /\ Untouched

\* Lines 451-618: one epoch of the retinotopic loop: training, validation,
\* early-stopping observation, scheduler step, checkpoint, end test.
RetinoEpoch ==
    /\ pc = "r_epoch"
    /\ \E avg_loss \in {"finite", "nonfinite"},
          val_loss \in {"finite", "nonfinite"}, val_acc \in Accs,
          lr \in SchedulerStep(loc.scheduler, optimizer.lr) :
         LET r == stop_early(self, val_acc)
             epoch == loc.epoch + 1
             stop_training == epoch >= loc.n_epochs
         IN  /\ self' = r.self
             /\ model' = OptimizerStep(model)
             /\ optimizer' = [optimizer EXCEPT !.lr = lr]
             /\ loc' = [loc EXCEPT !.epoch = epoch,
                                   !.stop_training = stop_training,
                                   !.avg_loss = avg_loss,
                                   !.val_loss = val_loss,
                                   !.val_acc = Some(val_acc),
                                   !.avg_pearson = TestPearson(loc.test_data),
                                   !.stop = r.ret]
             /\ files' = save_checkpoint(files,
                                         [epoch |-> epoch, cv_idx |-> 0,
                                          zero_dict |-> <<>>,
                                          cur_lr |-> lr,
                                          test_pearson |->
                                              TestPearson(loc.test_data),
                                          weights |-> "trained",
                                          zeroed |-> {}],
                                         DelPrev(hyps))
             /\ hist' = [hist EXCEPT !.epochs_run = @ + 1]
             /\ pc' = IF avg_loss = "nonfinite" \/ r.ret \/ stop_training
                      THEN "r_final" ELSE "r_epoch"
    /\ UNCHANGED <<hyper_q, hyps>>
    /\ Untouched

\* Lines 620-637: the summary of a retinotopic run.  Line 631 reads
\* zero_dict, a name retinotopic_loop never binds, when hyps['prune'] holds.
RetinoFinal ==
    /\ pc = "r_final"
    /\ IF hyps.prune
       THEN Raise("NameError", hyps)
       ELSE /\ loc' = [NoLoc EXCEPT
                   !.results = Some([save_folder |-> 0,
                                     Loss |-> loc.avg_loss,
                                     ValAcc |-> Val(loc.val_acc),
                                     ValLoss |-> loc.val_loss,
                                     TestPearson |-> loc.avg_pearson,
                                     zero_dict |-> None])]
            /\ pc' = "train_return"
            /\ model' = NoModel
            /\ optimizer' = NoOptimizer
            /\ UNCHANGED <<self, hyper_q, hyps, files, hist>>
            /\ Untouched

----------------------------------------------------------------------------
(* Spec: a sweep of 1..MaxJobs jobs run by one Trainer. *)

StopTolerance == 1    \* stop_tolerance, line 640, in units of 0.01

Init ==
    /\ \E es \in 0..MaxPatience : self = TrainerInit(es, StopTolerance)
    /\ \E n \in 1..MaxJobs :
         /\ hyper_q = [k \in 1..n |-> k]
         /\ hist = [NoHist EXCEPT !.total = n]
    /\ hyps = NoHyps
    /\ pc = "hyper_loop"
    /\ loc = NoLoc
    /\ model = NoModel
    /\ optimizer = NoOptimizer
    /\ files = NoFiles
    /\ stopin = NoStopIn
    /\ optin = None
    /\ sweep = None
    /\ mapin = None
    /\ inspin = None

Next ==
    \/ HyperQGet
    \/ HyperDone
    \/ TrainReturn
    \/ RaiseIndexError
    \/ FoldSetup
    \/ TrainBatch
    \/ Validate
    \/ PruneSkip
    \/ PruneEval
    \/ Save
    \/ FoldEnd
    \/ RetinoSetup
    \/ RetinoEpoch
    \/ RetinoFinal

Spec == Init /\ [][Next]_vars

----------------------------------------------------------------------------
(* SpecStop. *)

InitStop ==
    /\ \E es \in (-1)..(MaxPatience + 1), tol \in Tolerances :
         self = TrainerInit(es, tol)
    /\ stopin = NoStopIn
    /\ hyper_q = <<>>
    /\ hyps = NoHyps
    /\ pc = "stop_early"
    /\ loc = NoLoc
    /\ model = NoModel
    /\ optimizer = NoOptimizer
    /\ files = NoFiles
    /\ hist = NoHist
    /\ optin = None
    /\ sweep = None
    /\ mapin = None
    /\ inspin = None

NextStop == \E acc \in Accs : Observe(acc)

SpecStop == InitStop /\ [][NextStop]_vars

----------------------------------------------------------------------------
(* Properties of train_loop, Trainer.train and hyper_search, under Spec. *)

\* C1: with pruning disabled, early stopping disabled (patience 0) and all
\* losses finite, a fold of train_loop runs exactly n_epochs epochs, saves
\* exactly n_epochs checkpoints, and the last checkpoint carries epoch
\* n_epochs - 1.
C1_ExactlyNEpochs ==
    (pc = "final" /\ ~hyps.prune /\ self.early_stopping = 0 /\ hist.all_finite)
    => /\ hist.epochs_run = hyps.n_epochs
       /\ files.ckpts = hyps.n_epochs
       /\ Val(files.last_ckpt).epoch = hyps.n_epochs - 1

\* C4: once the accumulated loss of an epoch is NaN or infinite no further
\* batch is processed, neither in that epoch nor in a later one of the fold;
\* the validation and the checkpoint of that epoch still follow, and then
\* the loop is left.
C4_NanEndsEpochAndFold ==
    [][ /\ (pc = "batch" => loc.epoch_loss = "finite" /\ ~hist.nan_seen)
        /\ (pc = "batch" /\ hist'.nan_seen => pc' = "validate")
        /\ (hist.nan_seen /\ hist'.nan_seen =>
              /\ pc' /= "batch"
              /\ (pc = "validate" =>
                    pc' = "prune" /\ loc'.avg_loss = "nonfinite"
                    /\ loc'.val_loss /= "")
              /\ (pc = "prune" => pc' = "save")
              /\ (pc = "save" =>
                    /\ pc' = "final"
                    /\ files'.ckpts = files.ckpts + 1
                    /\ Val(files'.last_ckpt).epoch = loc.epoch)) ]_vars

\* The loss became non-finite on the first batch of an epoch; the second
\* batch was not processed, and the fold ended with that epoch's checkpoint.
C4_Witness ==
    /\ pc = "final" /\ hist.nan_seen /\ loc.i = 0 /\ NBatches > 1
    /\ loc.val_loss /= ""
    /\ files.last_ckpt /= None /\ Val(files.last_ckpt).epoch = loc.epoch

\* C5 as stated: over one train_loop call, all folds included, every mask
\* checkpointed is contained in the mask checkpointed next.
C5_MaskGrowsOverRun ==
    [][ (files.last_ckpt /= None /\ files'.last_ckpt /= None)
        => MaskPairs(Val(files.last_ckpt).zero_dict)
             \subseteq MaskPairs(Val(files'.last_ckpt).zero_dict) ]_vars

\* C5: within one fold of a train_loop call the ZeroMask only grows: every
\* (layer, channel) of a checkpointed mask is in the mask checkpointed next
\* in that fold.
C5_MaskGrowsInFold ==
    [][ (/\ files.last_ckpt /= None /\ files'.last_ckpt /= None
         /\ Val(files.last_ckpt).cv_idx = Val(files'.last_ckpt).cv_idx)
        => MaskPairs(Val(files.last_ckpt).zero_dict)
             \subseteq MaskPairs(Val(files'.last_ckpt).zero_dict) ]_vars

\* A fold has checkpointed a mask that grew twice.
C5_Witness ==
    /\ files.last_ckpt /= None
    /\ files.ckpts >= 3
    /\ Cardinality(MaskPairs(Val(files.last_ckpt).zero_dict)) >= 2

\* C6: with prune and reset_sd, after the pruning evaluation that finds
\* open_layers empty the parameters are those of the snapshot taken before
\* epoch 0, with the channels of the final ZeroMask zeroed.
C6_RollbackRestoresSnapshot ==
    (pc = "save" /\ loc.reset_sd /\ hist.prune_done = Some(loc.epoch))
    => /\ model.weights = hist.snapshot
       /\ model.zeroed = MaskPairs(Val(loc.zero_dict))

\* C7: with prune and reset_sd, the evaluation that finds open_layers empty
\* leaves the loop running with pruning inactive, and a loop that no
\* non-finite loss or early stop ends runs exactly hyps['n_epochs'] epochs
\* after that evaluation's epoch.
C7_FreshBudgetAfterPruning ==
    /\ (pc = "save" /\ loc.reset_sd /\ hist.prune_done = Some(loc.epoch)
        => ~loc.stop_training /\ ~loc.hyps_prune)
    /\ (/\ pc = "final" /\ loc.reset_sd /\ hist.prune_done /= None
        /\ loc.avg_loss = "finite" /\ loc.val_loss = "finite" /\ ~loc.stop
        => /\ loc.epoch = Val(hist.prune_done) + hyps.n_epochs
           /\ ~loc.hyps_prune)

\* A fold ended, by the loop test, MaxEpochs epochs after its pruning ended.
C7_Witness ==
    /\ pc = "final" /\ loc.reset_sd /\ hist.prune_done /= None
    /\ loc.avg_loss = "finite" /\ loc.val_loss = "finite" /\ ~loc.stop
    /\ hyps.n_epochs = MaxEpochs
    /\ loc.epoch = Val(hist.prune_done) + MaxEpochs

\* C8: after an epoch whose validation loss is non-finite, or whose training
\* loss is non-finite, or at which stop_early returned true, no later epoch
\* of the fold is run.
C8_StopsOnAnyOfThree ==
    [][ (pc = "save" /\ (\/ loc.val_loss = "nonfinite"
                         \/ loc.avg_loss = "nonfinite"
                         \/ loc.stop))
        => pc' /= "batch" ]_vars

\* C9: an IndexError raised in train_loop or retinotopic_loop makes train
\* return None; hyper_search writes no result line for a None, and takes
\* every job that is left in the queue.
C9_IndexErrorSkipsJob ==
    [][ /\ hist.jobs + Len(hyper_q) = hist.total
        /\ (hist'.index_errors /= hist.index_errors =>
              pc' = "train_return" /\ loc'.results = None
              /\ hyper_q' = hyper_q)
        /\ (pc = "train_return" /\ loc.results = None =>
              /\ files'.result_lines = files.result_lines
              /\ pc' = "hyper_loop" /\ hyper_q' = hyper_q)
        /\ (pc = "hyper_loop" /\ hyper_q /= <<>> =>
              hist'.jobs = hist.jobs + 1 /\ pc' \in {"fold", "r_setup"}) ]_vars

\* The second job is being trained after the first was skipped for an
\* IndexError.
C9_Witness ==
    /\ InLoop /\ hist.jobs = 2
    /\ hist.index_errors = 1 /\ files.skipped = 1 /\ files.result_lines = 0

\* C11: when the job in training names a loss that is not registered, only
\* that job is given up: the step that sets the job up hands control back to
\* hyper_search (train returns), the queue is left as it was, and the jobs
\* that remain are still taken.
C11_ConfigErrorAbortsOnlyJob ==
    [][ (/\ pc \in {"fold", "r_setup"}
         /\ hyps.lossfxn /= None
         /\ Val(hyps.lossfxn) \notin Globals)
        => (pc' = "train_return" /\ hyper_q' = hyper_q) ]_vars

\* C23: every epoch of a fold of train_loop that runs to its end, whether it
\* ends with a loss that is not finite, with the early-stopping signal or
\* with a pruning evaluation, saves one checkpoint before the test that
\* ends the loop: during epoch e the fold has saved e checkpoints, the last
\* with epoch field e - 1, and when the loop is left it has saved e + 1,
\* the last with epoch field e.  The folder holds the last checkpoint only
\* when save_every_epoch is given and false, and all of them otherwise.
C23_OneCheckpointPerEpoch ==
    LET saved == IF pc = "final" THEN loc.epoch + 1 ELSE loc.epoch
    IN  pc \in {"batch", "validate", "prune", "save", "final"} =>
          /\ files.ckpts = saved
          /\ (saved > 0 =>
                /\ Val(files.last_ckpt).epoch = saved - 1
                /\ Val(files.last_ckpt).cv_idx = loc.cv_idx)
          /\ files.kept = IF hyps.save_every_epoch = Some(FALSE)
                          THEN {e \in {saved - 1} : saved > 0}
                          ELSE 0..(saved - 1)

\* A fold that is asked to keep the last checkpoint only has left its loop
\* after three checkpoints, and its folder holds the third.
C23_Witness ==
    /\ pc = "final"
    /\ files.ckpts = 3
    /\ hyps.save_every_epoch = Some(FALSE)
    /\ files.kept = {2}

\* C24: hyper_search takes the jobs from the queue one at a time and has
\* train called once for each: every job taken has returned before the next
\* is taken, and a job is either in the queue or taken.  It ends only on an
\* empty queue, with every enqueued job trained.  The results file has one
\* line for every job whose train call returned a result and none for a job
\* whose call returned None.  (A sweep that an exception has ended is the
\* subject of C11.)
C24_OneJobAtATime ==
    /\ hist.jobs + Len(hyper_q) = hist.total
    /\ (InLoop \/ pc = "train_return" => hist.returned = hist.jobs - 1)
    /\ (pc \in {"hyper_loop", "done"} => hist.returned = hist.jobs)
    /\ (pc = "done" => hyper_q = <<>> /\ hist.returned = hist.total)
    /\ files.result_lines = hist.returned - hist.index_errors
                              + (IF pc = "train_return" /\ loc.results = None
                                 THEN 1 ELSE 0)

\* A sweep of two jobs has ended: one job returned a result and has its
\* line, the other returned None and has none.
C24_Witness ==
    /\ pc = "done"
    /\ hist.total = 2 /\ hist.returned = 2
    /\ hist.index_errors = 1
    /\ files.result_lines = 1

\* The pc values of a fold of train_loop.
InFold == pc \in {"fold", "batch", "validate", "prune", "save", "final"}

\* The configured fold: hyps['cross_val_idx'], 0 when it is None.
ConfiguredFold(h) == IF h.cross_val_idx = None THEN 0 ELSE Val(h.cross_val_idx)

\* The folds of a job follow one another as the range that starts at first
\* says: the index of a fold does not change while the fold runs, the fold
\* after fold i is fold i + 1, and train_loop returns its results after
\* fold n_cv_folds - 1 with cross_val, after its first fold without.
FoldsFrom(first) ==
    /\ (pc = "hyper_loop" /\ pc' = "fold" => loc'.cv_idx = first)
    /\ (InFold /\ pc /= "final" /\ pc' \in {"batch", "validate", "prune",
                                          "save", "final"}
          => loc'.cv_idx = loc.cv_idx)
    /\ (pc = "final" /\ pc' = "fold" =>
          hyps.cross_val /\ loc'.cv_idx = loc.cv_idx + 1
          /\ loc'.cv_idx <= hyps.n_cv_folds - 1)
    /\ (pc = "final" /\ pc' = "train_return" /\ loc'.results /= None =>
          IF hyps.cross_val THEN loc.cv_idx = hyps.n_cv_folds - 1
          ELSE loc.cv_hi = loc.cv_idx + 1)

C26_PruningLoopEndsOnEmptyOpenLayers ==
    [][ (pc = "save" /\ hyps.prune /\ ~hyps.reset_sd)
        => /\ (pc' = "final" =>
                 \/ loc.avg_loss = "nonfinite"
                 \/ loc.stop
                 \/ (/\ hist.prune_done = Some(loc.epoch)
                     /\ PruneNow(loc, hyps)
                     /\ hyps.open_layers = Some({})))
           /\ (pc' = "batch" =>
                 /\ loc.avg_loss /= "nonfinite" /\ ~loc.stop
                 /\ hist.prune_done = None) ]_vars

\* A fold with pruning has run past n_epochs and has left its loop after the
\* checkpoint of the epoch whose evaluation emptied open_layers, with a
\* finite loss and no early stop.
C26_Witness ==
    /\ pc = "final"
    /\ hyps.prune /\ ~hyps.reset_sd /\ hyps.exp_name = "exp"
    /\ loc.epoch > hyps.n_epochs
    /\ hist.prune_done = Some(loc.epoch)
    /\ loc.avg_loss = "finite" /\ ~loc.stop

\* C27: in train_loop, whenever the validation, the pruning block or the
\* checkpoint of an epoch is about to run, and when the loop has been left,
\* every channel of the current zero_dict is zero in the model; and the
\* parameters a checkpoint holds are zero in every channel of the zero_dict
\* it holds.
C27_MaskIsApplied ==
    /\ (pc \in {"validate", "prune", "save", "final"} =>
          MaskPairs(Val(loc.zero_dict)) \subseteq model.zeroed)
    /\ (files.last_ckpt /= None =>
          MaskPairs(Val(files.last_ckpt).zero_dict)
            \subseteq Val(files.last_ckpt).zeroed)

\* A checkpoint is about to be saved in an epoch after the one whose
\* evaluation pruned a first channel: the mask is not empty, and the model
\* has been trained since.
C27_Witness ==
    /\ pc = "save"
    /\ files.last_ckpt /= None
    /\ MaskPairs(Val(files.last_ckpt).zero_dict) /= {}
    /\ Val(files.last_ckpt).cv_idx = loc.cv_idx
    /\ model.weights = "trained"
    /\ MaskPairs(Val(loc.zero_dict)) /= {}
    /\ MaskPairs(Val(loc.zero_dict)) \subseteq model.zeroed


\* What a run reports about the test set at the steps where it is computed
\* or written, when failed holds before the step: the epoch's avg_pearson
\* after the validation, the test_pearson of the checkpoint written, the
\* TestPearson of the results returned.
ReportsNoTest(failed) ==
    /\ (failed /\ pc = "validate" /\ pc' = "prune" => loc'.avg_pearson = 0)
    /\ (failed /\ pc \in {"save", "r_epoch"} /\ files'.ckpts = files.ckpts + 1 =>
            Val(files'.last_ckpt).test_pearson = 0)
    /\ (failed /\ pc \in {"final", "r_final"} /\ pc' = "train_return"
            /\ loc'.results /= None =>
            Val(loc'.results).TestPearson = 0)

\* C28, as stated: once loading the test split has failed in a run, no later
\* epoch of the run evaluates on the test set, and every checkpoint written
\* and the results returned after it report a test correlation of 0.
C28_FailedLoadDisablesTestForRun == [][ReportsNoTest(hist.test_failed)]_vars

\* C28, amended: get_data is called for every fold.  A failed load of the
\* test split raises nothing and the fold is trained; no epoch of that fold
\* evaluates on the test set, every checkpoint of that fold reports a test
\* correlation of 0, and so do the results when the fold is the last one.
C28_FailedLoadDisablesTestForFold ==
    [][ /\ (pc \in {"fold", "r_setup"} /\ ~hist.test_failed /\ hist'.test_failed =>
               pc' \in {"batch", "r_epoch"} /\ loc'.test_data = None)
        /\ ReportsNoTest(loc.test_data = None) ]_vars

\* A run of two folds has returned: the test split of the second did not
\* load, its checkpoint and the results report a test correlation of 0.
C28_Witness ==
    /\ pc = "train_return" /\ loc.results /= None
    /\ hyps.cross_val /\ hyps.n_cv_folds = 2
    /\ hist.test_failed
    /\ Val(loc.results).TestPearson = 0
    /\ files.last_ckpt /= None /\ Val(files.last_ckpt).test_pearson = 0
    /\ Val(files.last_ckpt).cv_idx = 1


\* C29: a fold of a run with a startpt starts with the weights and the
\* optimizer state of that checkpoint, and with the checkpoint's zero_dict
\* when it has one; without a startpt, or with a checkpoint that has no
\* zero_dict, the zero_dict starts empty for every prune layer.
C29_FoldStartsFromCheckpoint ==
    [][ pc = "fold" /\ pc' = "batch" =>
          LET cp == load_checkpoint(Val(hyps.startpt))
              empty == [d \in hyps'.prune_layers |-> {}]
          IN  /\ (hyps.startpt /= None =>
                     /\ model'.weights = cp.model_state_dict
                     /\ optimizer' = cp.optim_state_dict
                     /\ Val(loc'.zero_dict) =
                          IF cp.zero_dict /= None THEN Val(cp.zero_dict)
                          ELSE empty)
              /\ (hyps.startpt = None => Val(loc'.zero_dict) = empty) ]_vars

\* A pruning run has started from a checkpoint with a zero_dict: before
\* the first batch the model and the optimizer hold the checkpoint's state
\* and channel 1 of layer 1 is masked.
C29_Witness ==
    /\ pc = "batch" /\ loc.epoch = 0 /\ loc.i = 0
    /\ hyps.prune /\ hyps.startpt = Some("pre_3/epoch_1")
    /\ model.weights = "pre" /\ optimizer.lr = 0
    /\ Val(loc.zero_dict)[1] = {1}


\* C30: with early stopping enabled, the first validation of a fold, and of
\* a retinotopic run, is a first observation of stop_early: it stores the
\* metric, sets the counter to 0 and returns false, whatever the folds and
\* the jobs before it have left in the Trainer.
C30_MonitorStartsFreshPerFold ==
    [][ /\ self.early_stopping > 0
        /\ \/ pc = "validate" /\ pc' = "prune" /\ loc.epoch = 0
           \/ pc = "r_epoch" /\ pc' \in {"r_epoch", "r_final"} /\ loc.epoch = -1
        => /\ self'.prev_acc = loc'.val_acc
           /\ self'.stop_count = Some(0)
           /\ ~loc'.stop ]_vars


\* C31: in an epoch of a fold where pruning is active, prune_channels is
\* called exactly when the epoch e has e >= n_epochs - 1 and
\* (e - n_epochs) % prune_intvl = 0, n_epochs being the warmup count
\* (prune_intvl with reset_sd, hyps['n_epochs'] without); an evaluation
\* that is not the fold's first comes prune_intvl epochs after the one
\* before it.  With pruning inactive there is no evaluation.
C31_PruningEvaluationEpochs ==
    [][ pc = "prune" /\ pc' = "save" =>
          LET e == loc.epoch
              due == /\ loc.hyps_prune
                     /\ e >= loc.n_epochs - 1
                     /\ (e - loc.n_epochs) % hyps.prune_intvl = 0
          IN  /\ (loc.hyps_prune => loc.n_epochs = WarmupEpochs(hyps))
              /\ (due => /\ hist'.last_eval = Some(e)
                         /\ (hist.last_eval /= None =>
                                e - Val(hist.last_eval) = hyps.prune_intvl))
              /\ (~due => hist'.last_eval = hist.last_eval) ]_vars

\* The second pruning evaluation of a fold with an interval of 2 has just
\* been made, two epochs after the first, which came with epoch n_epochs.
C31_Witness ==
    /\ pc = "save" /\ loc.hyps_prune /\ hyps.prune_intvl = 2
    /\ loc.epoch = loc.n_epochs + 2
    /\ hist.last_eval = Some(loc.epoch)


\* C32: in a fold of a run with pruning, from the end of the fold's set-up
\* to its first pruning evaluation, hyps['open_layers'] exists and is the
\* set of the fold's prune layers.
C32_OpenLayersFullAtFoldStart ==
    pc \in {"batch", "validate", "prune"} /\ hyps.prune /\ hist.last_eval = None
        => hyps.open_layers = Some(hyps.prune_layers)


\* C33: after a pruning evaluation of a fold without reset_sd the
\* optimizer has the rate it had just before the evaluation; unless
\* hyps['reset_lr'] is set, the scheduler is not the NullScheduler and the
\* prev_acc the controller returned is not the epoch's validation accuracy:
\* then the rate is hyps['lr'].
C33_RateAfterPruning ==
    [][ /\ pc = "prune" /\ pc' = "save"
        /\ hist'.last_eval = Some(loc.epoch)
        /\ ~loc.reset_sd
        => optimizer'.lr =
             IF /\ hyps.reset_lr /\ loc.scheduler /= "NullScheduler"
                /\ Val(loc'.prune_dict).prev_acc /= Val(loc.val_acc)
             THEN hyps.lr
             ELSE optimizer.lr ]_vars

\* A pruning evaluation has reset the rate: the scheduler had lowered it
\* to 0, the controller retired a layer and left its prev_acc alone, and
\* the optimizer is back at hyps['lr'].
C33_Witness ==
    /\ pc = "save" /\ hist.last_eval = Some(loc.epoch)
    /\ ~loc.reset_sd /\ hyps.reset_lr /\ loc.scheduler = "ReduceLROnPlateau"
    /\ Val(loc.prune_dict).prev_acc /= Val(loc.val_acc)
    /\ Val(loc.cur_lr) = 0 /\ hyps.lr = 1 /\ optimizer.lr = 1


\* C34: an epoch of train_loop goes through its phases one after another:
\* the training batches, then the validation with one call of stop_early
\* and one scheduler step, both on the epoch's validation accuracy, and the
\* test evaluation, then the pruning evaluation if one is due, then the
\* log and the checkpoint, then the test that ends the loop or starts the
\* next epoch.  No phase feeds the monitor or the scheduler but the
\* validation.  A step that raises leaves the epoch.
C34_PhasesInOrder ==
    [][ hist'.exc = "" =>
        /\ (pc = "batch" =>
               /\ pc' \in {"batch", "validate"}
               /\ loc'.epoch = loc.epoch /\ self' = self
               /\ hist'.fed = hist.fed /\ hist.fed.monitor = <<>>
               /\ files'.ckpts = files.ckpts)
        /\ (pc = "validate" =>
               /\ pc' = "prune" /\ loc'.epoch = loc.epoch
               /\ hist.fed = [monitor |-> <<>>, scheduler |-> <<>>]
               /\ hist'.fed = [monitor |-> <<Val(loc'.val_acc)>>,
                               scheduler |-> <<Val(loc'.val_acc)>>]
               /\ self' = stop_early(self, Val(loc'.val_acc)).self
               /\ loc'.stop = stop_early(self, Val(loc'.val_acc)).ret
               /\ files'.ckpts = files.ckpts /\ hist'.last_eval = hist.last_eval)
        /\ (pc = "prune" =>
               /\ pc' = "save" /\ loc'.epoch = loc.epoch /\ self' = self
               /\ hist'.fed = hist.fed /\ Len(hist.fed.monitor) = 1
               /\ Len(hist.fed.scheduler) = 1
               /\ files'.ckpts = files.ckpts)
        /\ (pc = "save" =>
               /\ pc' \in {"batch", "final"} /\ self' = self
               /\ Len(hist.fed.monitor) = 1 /\ Len(hist.fed.scheduler) = 1
               /\ files'.ckpts = files.ckpts + 1
               /\ Val(files'.last_ckpt).epoch = loc.epoch
               /\ hist'.last_eval = hist.last_eval
               /\ (pc' = "batch" <=> ~(LoopBreak(loc.avg_loss, loc.val_loss, loc.stop)
                                       \/ loc.stop_training))
               /\ (pc' = "batch" => loc'.epoch = loc.epoch + 1 /\ loc'.i = 0
                                    /\ hist'.fed.monitor = <<>>
                                    /\ hist'.fed.scheduler = <<>>)
               /\ (pc' = "final" => loc'.epoch = loc.epoch /\ hist'.fed = hist.fed)) ]_vars

\* The second epoch of a fold has been trained, validated, evaluated for
\* pruning and saved: the monitor and the scheduler were fed once in it.
C34_Witness ==
    /\ pc = "final" /\ loc.epoch = 1 /\ files.ckpts = 2
    /\ hist.last_eval = Some(1)
    /\ self.early_stopping > 0
    /\ hist.fed.monitor = <<Val(loc.val_acc)>>
    /\ hist.fed.scheduler = <<Val(loc.val_acc)>>


\* C35: in a fold the prune_dict is built from scratch (lines 292-298) at
\* the first pruning evaluation only: once a fold has had a pruning
\* evaluation it has built exactly one.
C35_PruneDictBuiltOnce ==
    InLoop /\ hist.last_eval /= None => hist.inits = 1


\* C36: when the first pruning evaluation of a fold is due, cur_lr, the
\* value line 297 places in prev_lr, is bound, and it is the rate the
\* optimizer had at the end of the epoch before (the rate of that epoch's
\* checkpoint), or hyps['lr'] when the evaluation comes with epoch 0.
C36_PrevLrDefinedAtFirstEvaluation ==
    pc = "prune" /\ PruneNow(loc, hyps) /\ hist.last_eval = None
        => loc.cur_lr = Some(IF files.ckpts = 0 THEN hyps.lr
                             ELSE Val(files.last_ckpt).cur_lr)


\* C39: a retinotopic run that has left its epoch loop writes its summary
\* and returns its results, whatever hyps['prune'] is.
C39_RetinotopicRunReturnsResult ==
    [][ pc = "r_final" /\ hist'.exc /= "IndexError" =>
          /\ pc' = "train_return"
          /\ loc'.results /= None
          /\ Val(loc'.results).Loss = loc.avg_loss
          /\ Val(loc'.results).ValAcc = Val(loc.val_acc)
          /\ Val(loc'.results).ValLoss = loc.val_loss
          /\ Val(loc'.results).TestPearson = loc.avg_pearson ]_vars

----------------------------------------------------------------------------
(* Properties of stop_early, under SpecStop. *)

\* C2: for patience P >= 1, stop_early returns true on the call that is the
\* P-th in a row to fail to improve on the stored value by the tolerance
\* (the (P+1)-th call counting the one that stored it) and on no earlier
\* call, and a call that improves by the tolerance resets the counter.
C2_StopsAfterPatience ==
    (stopin.calls > 0 /\ self.early_stopping >= 1)
    => /\ (stopin.nfail < self.early_stopping => ~stopin.ret)
       /\ (stopin.nfail = self.early_stopping => stopin.ret)
       /\ (stopin.improved => self.stop_count = Some(0))

\* C20: on a call that is not the first observation, with patience P > 0 and
\* a metric that fails to improve on the stored value by the tolerance, the
\* counter after the call is one more than before it, and the call returns
\* true exactly when that counter has reached P.
C20_FailureIncrementsCounter ==
    [][ (/\ self.early_stopping > 0
         /\ self.prev_acc /= None
         /\ stopin'.nfail > 0)
        => /\ self'.stop_count = Some(Val(self.stop_count) + 1)
           /\ (stopin'.ret <=> Val(self.stop_count) + 1 >= self.early_stopping)
      ]_vars

\* C21: the value stored by the monitor is the best metric accepted so far:
\* over any sequence of calls prev_acc never decreases, and once set it
\* changes only on a call whose metric exceeds it by the tolerance or more.
C21_StoredValueIsBest ==
    [][ self.prev_acc /= None
        => /\ Val(self'.prev_acc) >= Val(self.prev_acc)
           /\ (self'.prev_acc /= self.prev_acc => stopin'.improved) ]_vars

\* C22: with a patience of 0 or less, every call of stop_early returns
\* false, whatever the metric, and leaves the stored value and the counter
\* as they were.
C22_DisabledMonitorIsInert ==
    [][ self.early_stopping <= 0
        => /\ ~stopin'.ret
           /\ self'.prev_acc = self.prev_acc
           /\ self'.stop_count = self.stop_count ]_vars

\* Three calls were made on a monitor of negative patience: none returned
\* true and nothing was stored.
C22_Witness ==
    /\ self.early_stopping < 0
    /\ stopin.calls = 3
    /\ ~stopin.ret
    /\ self.prev_acc = None

----------------------------------------------------------------------------
(* SpecOptim: get_optim_objs alone, on every dict of OptimHyps. *)

\* Names a configuration can give for the loss and for the scheduler.
LossNames == {"PoissonNLLLoss", "MSELoss", "nll", "NullScheduler", "StepLR"}
SchedulerNames ==
    {"ReduceLROnPlateau", "MultiStepLR", "NullScheduler", "none", "StepLR",
     "ReduceLROnPlateu", "CosineAnnealingLR"}

OptimHyps ==
    [lossfxn : {None} \cup {Some(n) : n \in LossNames},
     log_poisson : {None, Some(FALSE), Some(TRUE)},
     scheduler : SchedulerNames]

\* The call get_optim_objs(hyps, model).
GetOptimObjs ==
    /\ pc = "get_optim_objs"
    /\ LET o == get_optim_objs(optin.hyps)
       IN  optin' = [optin EXCEPT !.err = o.err, !.loss_fn = o.loss_fn,
                                  !.scheduler = o.scheduler, !.after = o.hyps]
    /\ pc' = "done"
    /\ UNCHANGED <<self, hyper_q, hyps, loc, model, optimizer, files, hist,
                   stopin, sweep, mapin, inspin>>

InitOptim ==
    /\ \E h \in OptimHyps :
         optin = [hyps |-> h, err |-> "", loss_fn |-> "", scheduler |-> "",
                  after |-> h]
    /\ pc = "get_optim_objs"
    /\ self = TrainerInit(0, 0)
    /\ hyper_q = <<>>
    /\ hyps = NoHyps
    /\ loc = NoLoc
    /\ model = NoModel
    /\ optimizer = NoOptimizer
    /\ files = NoFiles
    /\ hist = NoHist
    /\ stopin = NoStopIn
    /\ sweep = None
    /\ mapin = None
    /\ inspin = None

NextOptim == GetOptimObjs

SpecOptim == InitOptim /\ [][NextOptim]_vars

\* The registries of the specification: the schedulers (plateau reduction,
\* milestone decay, none) and the losses (Poisson NLL, MSE), by the names
\* the configuration gives them.
SchedulerRegistry == {"ReduceLROnPlateau", "MultiStepLR", "NullScheduler", "none"}
LossRegistry == {"PoissonNLLLoss", "MSELoss"}

\* C10: get_optim_objs fails whenever the configured scheduler name or loss
\* name is not in its registry, and when it returns, the scheduler and the
\* loss it built are the configured ones.
C10_UnknownNameFails ==
    pc = "done" =>
      LET loss == IF optin.hyps.lossfxn = None THEN "PoissonNLLLoss"
                  ELSE Val(optin.hyps.lossfxn)
          sched == optin.hyps.scheduler
      IN  /\ (loss \notin LossRegistry \/ sched \notin SchedulerRegistry
              => optin.err /= "")
          /\ (optin.err = "" =>
                /\ optin.loss_fn = loss
                /\ optin.scheduler =
                     IF sched = "none" THEN "NullScheduler" ELSE sched)

----------------------------------------------------------------------------
(* fill_hyper_q: the values of a configuration, dicts, and the recursion. *)

MaxRange == 3         \* SpecSweep: a range list holds 1..MaxRange values
MaxSweepKeys == 2     \* SpecSweep: hyp_ranges holds 0..MaxSweepKeys keys
MaxRepeats == 2       \* SpecSweep: hyps['n_repeats'] ranges over 0..MaxRepeats

Digits == <<"0", "1", "2", "3", "4", "5", "6", "7", "8", "9">>

\* str(n) of an int.
RECURSIVE IntStr(_)
IntStr(n) ==
    IF n < 0 THEN "-" \o IntStr(-n)
    ELSE IF n < 10 THEN Digits[n + 1]
    ELSE IntStr(n \div 10) \o Digits[(n % 10) + 1]

\* str(v), as lines 968 and 971 apply it.
str(v) ==
    CASE v.t = "int" -> IntStr(v.n)
      [] v.t = "NoneType" -> "None"
      [] v.t = "bool" -> (IF v.n = 1 THEN "True" ELSE "False")
      [] OTHER -> v.s

\* dict_[key] = v on a dict, which is a function from its keys.
DictSet(dict_, key, v) ==
    [k \in (DOMAIN dict_) \cup {key} |-> IF k = key THEN v ELSE dict_[k]]

\* A try_key that does not look at the dict.
TryKeyDefault(dict_, key, default) == default

\* utils.try_key: the value under key when the dict has the key, also when
\* that value is None; the default otherwise.
try_key(dict_, key, default) ==
    IF key \in DOMAIN dict_ THEN dict_[key] ELSE default

\* The defaults of lines 940-962, by key.
Defaults ==
    [n_repeats |-> IntV(1), prune |-> BoolV(FALSE),
     altn_layers |-> BoolV(FALSE), abssum |-> BoolV(FALSE),
     prune_layers |-> ListV("[]"), prune_intvl |-> NoneV,
     prune_tolerance |-> FloatV("0.01"), alpha_steps |-> IntV(5),
     intg_bsize |-> IntV(500), scheduler |-> StrV("ReduceLROnPlateau"),
     scheduler_thresh |-> FloatV("0.01"), scheduler_patience |-> IntV(10),
     scheduler_scale |-> FloatV("0.5"), cross_val |-> BoolV(FALSE),
     cross_val_idx |-> IntV(0), n_cv_folds |-> IntV(10)]

\* Lines 940-962: every key of Defaults is given its value or its default,
\* and a prune_intvl that is None becomes hyps['n_epochs'] (lines 949-950).
Resolve(hyps_) ==
    LET h1 == [k \in (DOMAIN hyps_) \cup (DOMAIN Defaults) |->
                  IF k \in DOMAIN Defaults
                  THEN try_key(hyps_, k, Defaults[k]) ELSE hyps_[k]]
    IN  IF h1["prune_intvl"] = NoneV
        THEN DictSet(h1, "prune_intvl", h1["n_epochs"])
        ELSE h1

\* The search_keys string without the substitution of line 969-971.
RECURSIVE SearchKeysNoSubst(_, _, _)
SearchKeysNoSubst(hyps_, keys, i) ==
    IF i > Len(keys) THEN ""
    ELSE "_" \o keys[i] \o str(hyps_[keys[i]])
             \o SearchKeysNoSubst(hyps_, keys, i + 1)

\* Lines 966-972: the search_keys string of hyps_ from the i-th key on.
RECURSIVE SearchKeys(_, _, _)
SearchKeys(hyps_, keys, i) ==
    IF i > Len(keys) THEN ""
    ELSE LET k == keys[i]
             cp == load_checkpoint(str(hyps_[k]))
             v == IF k = "startpt" /\ hyps_[k] /= NoneV
                  THEN str(cp.exp_name) \o str(cp.exp_num)
                  ELSE str(hyps_[k])
         IN  "_" \o k \o v \o SearchKeys(hyps_, keys, i + 1)

\* The base call with a single put, whatever n_repeats is.
FillBaseOnce(hyps_, keys, q) ==
    LET h1 == Resolve(hyps_)
        h2 == DictSet(h1, "search_keys", StrV(SearchKeys(h1, keys, 1)))
    IN  [hyps |-> h2, hyper_q |-> Append(q, h2)]

\* Lines 938-973, the base call: the defaults, then n_repeats times the
\* search_keys and the put of a copy of the dict.  hyps is the dict it
\* leaves to the caller, who shares it.
FillBase(hyps_, keys, q) ==
    LET h1 == Resolve(hyps_)
        n == h1["n_repeats"].n
        h2 == DictSet(h1, "search_keys", StrV(SearchKeys(h1, keys, 1)))
    IN  IF n <= 0 THEN [hyps |-> h1, hyper_q |-> q]
        ELSE [hyps |-> h2, hyper_q |-> q \o [i \in 1..n |-> h2]]

\* fill_hyper_q(hyps, hyp_ranges, keys, hyper_q, idx): the queue it returns
\* and the dict it leaves.  FillParams is the loop of lines 980-984 from
\* the j-th value of the range on.
RECURSIVE fill_hyper_q(_, _, _, _, _), FillParams(_, _, _, _, _, _)
fill_hyper_q(hyps_, hyp_ranges, keys, q, idx) ==
    IF idx >= Len(keys) THEN FillBase(hyps_, keys, q)
    ELSE FillParams(hyps_, hyp_ranges, keys, q, idx, 1)

FillParams(hyps_, hyp_ranges, keys, q, idx, j) ==
    LET key == keys[idx + 1]
    IN  IF j > Len(hyp_ranges[key]) THEN [hyps |-> hyps_, hyper_q |-> q]
        ELSE LET r == fill_hyper_q(DictSet(hyps_, key, hyp_ranges[key][j]),
                                   hyp_ranges, keys, q, idx + 1)
             IN  FillParams(r.hyps, hyp_ranges, keys, r.hyper_q, idx, j + 1)

----------------------------------------------------------------------------
(* SpecSweep: hyper_search's call of fill_hyper_q, on bounded arguments. *)

SweepKeys == {"lr", "n_epochs", "prune_intvl", "startpt", "intg_bsize"}

\* The j-th value a range list of key k holds; the starting points are None
\* and the checkpoints of successive epochs of one run.
RangeVal(k, j) ==
    CASE k = "prune_intvl" -> (IF j = 1 THEN NoneV ELSE IntV(j - 1))
      [] k = "startpt" -> (IF j = 1 THEN NoneV
                           ELSE StrV("pre_3/epoch_" \o IntStr(j - 2)))
      [] OTHER -> IntV(j)

\* What a base dict may hold besides: nothing, a seed, an option of lines
\* 940-962 given as None, or one given with a value of the caller's.
ExtraHyps ==
    {[k \in {} |-> NoneV]} \cup
    { [k \in {kv[1]} |-> kv[2]] :
        kv \in {<<"seed", IntV(7)>>,
                <<"scheduler", NoneV>>, <<"cross_val_idx", NoneV>>,
                <<"prune", BoolV(TRUE)>>, <<"scheduler", StrV("MultiStepLR")>>,
                <<"n_cv_folds", IntV(5)>>, <<"intg_bsize", IntV(100)>>} }

\* The base dicts: n_epochs and lr are there; n_repeats and prune_intvl are
\* absent or given, prune_intvl also as None; one of ExtraHyps is added.
BaseHyps ==
    { [k \in {"n_epochs", "lr"} \cup (IF r = -1 THEN {} ELSE {"n_repeats"})
                \cup (IF p = -1 THEN {} ELSE {"prune_intvl"})
                \cup (DOMAIN x) |->
          CASE k \in DOMAIN x -> x[k]
            [] k = "n_epochs" -> IntV(2)
            [] k = "lr" -> IntV(1)
            [] k = "n_repeats" -> IntV(r)
            [] OTHER -> (IF p = 0 THEN NoneV ELSE IntV(p))] :
        r \in -1..MaxRepeats, p \in -1..1, x \in ExtraHyps }

\* keys = list(hyp_ranges.keys()): distinct keys in the order of the dict.
KeyLists ==
    { ks \in UNION {[1..n -> SweepKeys] : n \in 0..MaxSweepKeys} :
        \A i, j \in DOMAIN ks : i /= j => ks[i] /= ks[j] }

RangesOf(ks) ==
    { [k \in {ks[i] : i \in DOMAIN ks} |-> [j \in 1..len[k] |-> RangeVal(k, j)]] :
        len \in [{ks[i] : i \in DOMAIN ks} -> 1..MaxRange] }

\* A get that takes the entry put last.
QueueGetLast(q) == [item |-> q[Len(q)], rest |-> SubSeq(q, 1, Len(q) - 1)]

\* hyper_q.get() of line 695 on a queue.Queue, which is first in, first
\* out: the entry it returns and the queue it leaves.
QueueGet(q) == [item |-> Head(q), rest |-> Tail(q)]

\* hyper_search, lines 682-684: the queue is filled.  sweep.hyper_q keeps
\* what the call returned, sweep.after the dict the caller is left with.
FillHyperQ ==
    /\ pc = "fill_hyper_q"
    /\ LET r == fill_hyper_q(sweep.hyps, sweep.hyp_ranges, sweep.keys, <<>>, 0)
       IN  /\ sweep' = [sweep EXCEPT !.hyper_q = r.hyper_q, !.after = r.hyps]
           /\ hyper_q' = r.hyper_q
    /\ pc' = "done"
    /\ UNCHANGED <<self, hyps, loc, model, optimizer, files, hist,
                   stopin, optin, mapin, inspin>>

\* hyper_search, lines 694-698: the next entry is taken from the queue and
\* trained; sweep.trained lists the entries in the order they were taken.
HyperSearchGet ==
    /\ pc = "done"
    /\ hyper_q /= <<>>
    /\ hyper_q' = QueueGet(hyper_q).rest
    /\ sweep' = [sweep EXCEPT !.trained = Append(@, QueueGet(hyper_q).item)]
    /\ UNCHANGED <<self, hyps, pc, loc, model, optimizer, files, hist,
                   stopin, optin, mapin, inspin>>

InitSweep ==
    /\ \E b \in BaseHyps, ks \in KeyLists :
         \E rs \in RangesOf(ks) :
           sweep = [hyps |-> b, hyp_ranges |-> rs, keys |-> ks,
                    hyper_q |-> <<>>, after |-> b, trained |-> <<>>]
    /\ pc = "fill_hyper_q"
    /\ self = TrainerInit(0, 0)
    /\ hyper_q = <<>>
    /\ hyps = NoHyps
    /\ loc = NoLoc
    /\ model = NoModel
    /\ optimizer = NoOptimizer
    /\ files = NoFiles
    /\ hist = NoHist
    /\ stopin = NoStopIn
    /\ optin = None
    /\ mapin = None
    /\ inspin = None

NextSweep == FillHyperQ \/ HyperSearchGet

SpecSweep == InitSweep /\ [][NextSweep]_vars

\* The length of the i-th range, and the number of elements of the
\* cartesian product of the ranges from the i-th on.
RangeLen(i) == Len(sweep.hyp_ranges[sweep.keys[i]])

RECURSIVE RangeProduct(_)
RangeProduct(i) ==
    IF i > Len(sweep.keys) THEN 1 ELSE RangeLen(i) * RangeProduct(i + 1)

\* The elements of the cartesian product, each by the index it takes in
\* every range; the value of element f for the i-th key.
Elements ==
    { f \in [1..Len(sweep.keys) -> 1..MaxRange] :
        \A i \in 1..Len(sweep.keys) : f[i] <= RangeLen(i) }

ElementValue(f, i) == sweep.hyp_ranges[sweep.keys[i]][f[i]]

\* n_repeats of the base configuration, 1 when it gives none.
BaseRepeats ==
    IF "n_repeats" \in DOMAIN sweep.hyps THEN sweep.hyps["n_repeats"].n ELSE 1

ElementAt(e) ==
    [i \in 1..Len(sweep.keys) |->
        ((e \div RangeProduct(i + 1)) % RangeLen(i)) + 1]

----------------------------------------------------------------------------
(* Properties of the filled queue, under SpecSweep. *)

\* The base configuration gives no prune_intvl (the key is absent or holds
\* None) and prune_intvl is not swept.
PruneIntvlUnset ==
    /\ try_key(sweep.hyps, "prune_intvl", NoneV) = NoneV
    /\ \A i \in 1..Len(sweep.keys) : sweep.keys[i] /= "prune_intvl"

\* C12: when neither the base configuration nor the ranges give a
\* prune_intvl, every entry of the queue holds as prune_intvl its own
\* n_epochs, also when n_epochs is swept.
C12_PruneIntvlIsOwnNEpochs ==
    (pc = "done" /\ PruneIntvlUnset) =>
      \A p \in 1..Len(sweep.hyper_q) :
        sweep.hyper_q[p]["prune_intvl"] = sweep.hyper_q[p]["n_epochs"]

\* The positions in the queue of the entries of the e-th element (from 0) of
\* the product.
RepeatsOf(e) == (e * BaseRepeats + 1)..((e + 1) * BaseRepeats)

\* C13: with n_repeats > 1, the entries made for one element of the product
\* differ from one another, at least in the seed they hold.
C13_RepeatsDifferInSeed ==
    (pc = "done" /\ BaseRepeats > 1) =>
      \A e \in 0..(RangeProduct(1) - 1) :
        \A p1, p2 \in RepeatsOf(e) :
          p1 /= p2 =>
            /\ sweep.hyper_q[p1] /= sweep.hyper_q[p2]
            /\ try_key(sweep.hyper_q[p1], "seed", NoneV)
                 /= try_key(sweep.hyper_q[p2], "seed", NoneV)

\* C14: filling the queue leaves the caller's base configuration as it was:
\* after the call the dict passed as hyps has the keys and the values it had
\* before.
C14_BaseConfigurationUnchanged ==
    pc = "done" =>
      /\ DOMAIN sweep.after = DOMAIN sweep.hyps
      /\ \A k \in DOMAIN sweep.hyps : sweep.after[k] = sweep.hyps[k]

\* C15: every entry of the queue holds a value other than None for each of
\* the sixteen options that lines 940-962 resolve, whatever the base
\* configuration, also one that holds such a key with the value None.
C15_ResolvedOptionsNotNone ==
    pc = "done" =>
      \A p \in 1..Len(sweep.hyper_q) :
        \A k \in DOMAIN Defaults :
          /\ k \in DOMAIN sweep.hyper_q[p]
          /\ sweep.hyper_q[p][k] /= NoneV

\* The index in the keys list at which key k is swept, 0 when it is not.
SweptAt(k) ==
    IF \E i \in 1..Len(sweep.keys) : sweep.keys[i] = k
    THEN CHOOSE i \in 1..Len(sweep.keys) : sweep.keys[i] = k
    ELSE 0

\* What the caller gives for option k to the p-th entry of the queue: the
\* value of the entry's element when k is swept, the base configuration's
\* value when it has the key, and unset otherwise.
Supplied(k, p) ==
    IF SweptAt(k) /= 0
    THEN ElementValue(ElementAt((p - 1) \div BaseRepeats), SweptAt(k))
    ELSE sweep.hyps[k]

IsSupplied(k) == SweptAt(k) /= 0 \/ k \in DOMAIN sweep.hyps

\* C16: an entry of the queue holds prune = False, scheduler =
\* 'ReduceLROnPlateau', n_cv_folds = 10 and intg_bsize = 500 where neither
\* the base configuration nor the ranges have the key, and the caller's
\* value where they have it.
C16_DefaultsWhereUnset ==
    pc = "done" =>
      \A p \in 1..Len(sweep.hyper_q) :
        LET entry == sweep.hyper_q[p]
            Holds(k, default) ==
                entry[k] = IF IsSupplied(k) THEN Supplied(k, p) ELSE default
        IN  /\ Holds("prune", BoolV(FALSE))
            /\ Holds("scheduler", StrV("ReduceLROnPlateau"))
            /\ Holds("n_cv_folds", IntV(10))
            /\ Holds("intg_bsize", IntV(500))

\* A queue of four entries for a base configuration that gives n_cv_folds
\* and none of the other three options, with intg_bsize swept: the caller's
\* values and two defaults are held.
C16_Witness ==
    /\ pc = "done"
    /\ Len(sweep.hyper_q) = 4
    /\ sweep.keys = <<"intg_bsize">>
    /\ "n_cv_folds" \in DOMAIN sweep.hyps
    /\ sweep.hyper_q[4]["n_cv_folds"] = IntV(5)
    /\ sweep.hyper_q[4]["intg_bsize"] = IntV(2)
    /\ sweep.hyper_q[4]["prune"] = BoolV(FALSE)
    /\ sweep.hyper_q[4]["scheduler"] = StrV("ReduceLROnPlateau")

\* C17: two entries of the queue that differ in the value of a swept key
\* carry different search_keys.
C17_SearchKeysInjective ==
    pc = "done" =>
      \A p1, p2 \in 1..Len(sweep.hyper_q) :
        (\E i \in 1..Len(sweep.keys) :
            sweep.hyper_q[p1][sweep.keys[i]] /= sweep.hyper_q[p2][sweep.keys[i]])
        => sweep.hyper_q[p1]["search_keys"] /= sweep.hyper_q[p2]["search_keys"]

\* The concatenation of the strings of a sequence.
RECURSIVE Concat(_)
Concat(strs) == IF strs = <<>> THEN "" ELSE Head(strs) \o Concat(Tail(strs))

\* What key k adds to the search_keys of an entry: '_', the key and the text
\* of the entry's value, which for a startpt that is not None is the
\* exp_name and exp_num of the checkpoint at that path.
KeyPiece(entry, k) ==
    "_" \o k \o (IF k = "startpt" /\ entry[k] /= NoneV
                 THEN str(load_checkpoint(entry[k].s).exp_name)
                        \o str(load_checkpoint(entry[k].s).exp_num)
                 ELSE str(entry[k]))

\* C18: the search_keys of every entry is the concatenation, over the swept
\* keys in the order of the keys list, of '_' + key + str(the entry's value
\* for the key), with the checkpoint's exp_name and exp_num in place of a
\* startpt; no other key adds to it.
C18_SearchKeysConcatenation ==
    pc = "done" =>
      \A p \in 1..Len(sweep.hyper_q) :
        sweep.hyper_q[p]["search_keys"]
          = StrV(Concat([i \in 1..Len(sweep.keys) |->
                           KeyPiece(sweep.hyper_q[p], sweep.keys[i])]))

\* A starting point and lr were swept: the last entry names the checkpoint's
\* run and the second value of lr.
C18_Witness ==
    /\ pc = "done"
    /\ sweep.keys = <<"startpt", "lr">>
    /\ Len(sweep.hyper_q) = 4
    /\ sweep.hyper_q[4]["startpt"] = StrV("pre_3/epoch_0")
    /\ sweep.hyper_q[4]["search_keys"] = StrV("_startptpre3_lr2")

\* Element f comes before element g in the lexicographic order of the
\* positions in the range lists, the first key weighing most.
LexLess(f, g) ==
    \E i \in 1..Len(sweep.keys) :
        f[i] < g[i] /\ \A j \in 1..(i - 1) : f[j] = g[j]

\* The number of elements that come before f.
LexRank(f) == Cardinality({ g \in Elements : LexLess(g, f) })

\* The entry holds the values of element f (a prune_intvl that the element
\* gives as None is held as a number).
EntryOf(entry, f) ==
    \A i \in 1..Len(sweep.keys) :
        IF sweep.keys[i] = "prune_intvl" /\ ElementValue(f, i) = NoneV
        THEN entry["prune_intvl"].t = "int"
        ELSE entry[sweep.keys[i]] = ElementValue(f, i)

\* C19: the queue lists the elements of the product in lexicographic order
\* of their positions in the range lists, the first key varying slowest and
\* the last fastest, the n_repeats entries of an element next to one
\* another; hyper_search takes the entries in the order of the queue.
C19_LexicographicQueueOrder ==
    pc = "done" =>
      /\ \A f \in Elements :
           \A r \in 1..BaseRepeats :
             /\ LexRank(f) * BaseRepeats + r \in 1..Len(sweep.hyper_q)
             /\ EntryOf(sweep.hyper_q[LexRank(f) * BaseRepeats + r], f)
      /\ sweep.trained \o hyper_q = sweep.hyper_q

\* Two keys were swept over three and two values with two repeats, and
\* hyper_search has taken five of the twelve entries: the fifth is the first
\* of the third element, which holds the second value of the first key and
\* the first value of the second.
C19_Witness ==
    /\ pc = "done"
    /\ sweep.keys = <<"lr", "n_epochs">>
    /\ RangeLen(1) = 3 /\ RangeLen(2) = 2 /\ BaseRepeats = 2
    /\ Len(sweep.trained) = 5 /\ Len(hyper_q) = 7
    /\ sweep.trained[5]["lr"] = IntV(2)
    /\ sweep.trained[5]["n_epochs"] = IntV(1)

----------------------------------------------------------------------------
(* utils.best_one2one_mapping and one2one_recurse. *)

MaxRows == 3          \* SpecMap: cor_mtx has 1..MaxRows rows
MaxCols == 3          \* SpecMap: cor_mtx has 1..MaxCols columns
MaxCor == 1           \* SpecMap: the entries of cor_mtx range over 0..MaxCor

\* The depth of calls at which the interpreter raises RecursionError.  A
\* chain of calls that makes progress holds every row and column at most
\* once.
RecursionLimit == 2 * (MaxRows + MaxCols)

\* np.argsort(-v) for a vector v on 0..n-1: the orders of the indices in
\* which the values do not increase.  The default kind, quicksort, is not
\* stable: equal values come in any order.
ArgSortDesc(v, n) ==
    { s \in [1..n -> 0..(n - 1)] :
        /\ \A a, b \in 1..n : a /= b => s[a] /= s[b]
        /\ \A a \in 1..(n - 1) : v[s[a]] >= v[s[a + 1]] }

\* np.argsort as a function on the vectors of vs: the same vector is
\* sorted to the same order wherever it stands in the matrix.
RECURSIVE ArgSorts(_)
ArgSorts(vs) ==
    IF vs = {} THEN { <<>> }
    ELSE LET v == CHOOSE w \in vs : TRUE
         IN  { (v :> s) @@ g :
                 s \in ArgSortDesc(v, Cardinality(DOMAIN v)),
                 g \in ArgSorts(vs \ {v}) }

\* A frame of one2one_recurse: idx, whether the call has the matrices and
\* the dicts swapped (line 2060), the positions i of the loop of line 2051
\* and j of the loop of line 2053 (0 outside it), and whether the call of
\* line 2060 has just returned.
Frame(idx, swapped) ==
    [idx |-> idx, swapped |-> swapped, i |-> 1, j |-> 0, back |-> FALSE]

\* The parameters of the call of frame f, in terms of the two matrices and
\* the two dicts of best_one2one_mapping.
Mtx1(f) == IF f.swapped THEN mapin.arg_mtx2 ELSE mapin.arg_mtx1
Mtx2(f) == IF f.swapped THEN mapin.arg_mtx1 ELSE mapin.arg_mtx2
Bests1(f) == IF f.swapped THEN mapin.bests2 ELSE mapin.bests1
Bests2(f) == IF f.swapped THEN mapin.bests1 ELSE mapin.bests2

Top == mapin.stack[Len(mapin.stack)]
SetTop(f) == [mapin.stack EXCEPT ![Len(mapin.stack)] = f]
Popped == SubSeq(mapin.stack, 1, Len(mapin.stack) - 1)

\* A return of one2one_recurse: to the call of line 2060, or to the loop
\* of best_one2one_mapping.
Return(m) ==
    /\ mapin' = [m EXCEPT !.stack = Popped]
    /\ pc' = IF Len(mapin.stack) = 1 THEN "map_loop" ELSE "recurse"

\* A call of one2one_recurse: RecursionError at the recursion limit.
Call(m, idx, swapped) ==
    IF Len(m.stack) >= RecursionLimit
    THEN mapin' = m /\ pc' = "RecursionError"
    ELSE /\ mapin' = [m EXCEPT !.stack = Append(@, Frame(idx, swapped))]
         /\ pc' = "recurse"

OtherVarsOfMap ==
    UNCHANGED <<self, hyper_q, hyps, loc, model, optimizer, files, hist,
                stopin, optin, sweep, inspin>>

\* best_one2one_mapping, lines 2088-2091: the loop over the rows.
MapLoop ==
    /\ pc = "map_loop"
    /\ IF mapin.idx >= mapin.n
       THEN mapin' = mapin /\ pc' = "done"
       ELSE IF mapin.idx \notin DOMAIN mapin.bests1
       THEN Call([mapin EXCEPT !.idx = @ + 1], mapin.idx, FALSE)
       ELSE mapin' = [mapin EXCEPT !.idx = @ + 1] /\ pc' = "map_loop"
    /\ OtherVarsOfMap

\* one2one_recurse, lines 2051-2052 and 2063-2064: the next c1 of the
\* outer loop.
RecurseOuter ==
    /\ pc = "recurse" /\ Top.j = 0
    /\ LET f == Top
           row == Mtx1(f)[f.idx]
       IN  IF f.i > Len(row)
           THEN Return(mapin)
           ELSE IF row[f.i] \notin DOMAIN Bests2(f)
           THEN mapin' = [mapin EXCEPT !.stack = SetTop([f EXCEPT !.j = 1])]
                /\ pc' = "recurse"
           ELSE IF f.idx \in DOMAIN Bests1(f)
           THEN Return(mapin)
           ELSE mapin' = [mapin EXCEPT !.stack = SetTop([f EXCEPT !.i = @ + 1])]
                /\ pc' = "recurse"
    /\ OtherVarsOfMap

\* one2one_recurse, lines 2053-2060: the next c2 of the inner loop: a
\* match, a recursive call for c1, or nothing.
RecurseInner ==
    /\ pc = "recurse" /\ Top.j > 0 /\ ~Top.back
    /\ LET f == Top
           c1 == Mtx1(f)[f.idx][f.i]
           col == Mtx2(f)[c1]
       IN  IF f.j > Len(col)
           THEN mapin' = [mapin EXCEPT
                            !.stack = SetTop([f EXCEPT !.i = @ + 1, !.j = 0])]
                /\ pc' = "recurse"
           ELSE LET c2 == col[f.j]
                IN  IF c2 \notin DOMAIN Bests1(f) /\ c1 \notin DOMAIN Bests2(f)
                    THEN IF f.idx = c2
                         THEN Return(
                                IF f.swapped
                                THEN [mapin EXCEPT
                                        !.bests2 = DictSet(@, c2, c1),
                                        !.bests1 = DictSet(@, c1, c2)]
                                ELSE [mapin EXCEPT
                                        !.bests1 = DictSet(@, c2, c1),
                                        !.bests2 = DictSet(@, c1, c2)])
                         ELSE Call([mapin EXCEPT
                                      !.stack = SetTop([f EXCEPT !.back = TRUE])],
                                   c1, ~f.swapped)
                    ELSE mapin' = [mapin EXCEPT
                                     !.stack = SetTop([f EXCEPT !.j = @ + 1])]
                         /\ pc' = "recurse"
    /\ OtherVarsOfMap

\* one2one_recurse, lines 2061-2062: after the recursive call, the inner
\* loop is left when c1 has been matched.
RecurseBack ==
    /\ pc = "recurse" /\ Top.back
    /\ LET f == Top
           c1 == Mtx1(f)[f.idx][f.i]
       IN  mapin' = [mapin EXCEPT !.stack = SetTop(
                        IF c1 \in DOMAIN Bests2(f)
                        THEN [f EXCEPT !.i = @ + 1, !.j = 0, !.back = FALSE]
                        ELSE [f EXCEPT !.j = @ + 1, !.back = FALSE])]
    /\ pc' = "recurse"
    /\ OtherVarsOfMap

----------------------------------------------------------------------------
(* SpecMap: best_one2one_mapping on every small correlation matrix. *)

InitMap ==
    /\ \E n \in 1..MaxRows, m \in 1..MaxCols :
         \E cor \in [0..(n - 1) -> [0..(m - 1) -> 0..MaxCor]] :
           LET col == [c \in 0..(m - 1) |-> [r \in 0..(n - 1) |-> cor[r][c]]]
           IN  \E argsort \in ArgSorts({ cor[r] : r \in 0..(n - 1) }
                                       \cup { col[c] : c \in 0..(m - 1) }) :
                 mapin = [n |-> n, m |-> m, cor_mtx |-> cor,
                         arg_mtx1 |-> [r \in 0..(n - 1) |-> argsort[cor[r]]],
                         arg_mtx2 |-> [c \in 0..(m - 1) |-> argsort[col[c]]],
                         bests1 |-> <<>>, bests2 |-> <<>>,
                         idx |-> 0, stack |-> <<>>]
    /\ pc = "map_loop"
    /\ self = TrainerInit(0, 0)
    /\ hyper_q = <<>>
    /\ hyps = NoHyps
    /\ loc = NoLoc
    /\ model = NoModel
    /\ optimizer = NoOptimizer
    /\ files = NoFiles
    /\ hist = NoHist
    /\ stopin = NoStopIn
    /\ optin = None
    /\ sweep = None
    /\ inspin = None

NextMap == MapLoop \/ RecurseOuter \/ RecurseInner \/ RecurseBack

SpecMap == InitMap /\ [][NextMap]_vars

\* C37: best_one2one_mapping returns, without exhausting the recursion,
\* and the two dicts it returns are inverses of each other: bests1[r] = c
\* if and only if bests2[c] = r.
C37_MappingTerminatesWithInverseDicts ==
    /\ pc /= "RecursionError"
    /\ (pc = "done" =>
          /\ \A r \in DOMAIN mapin.bests1 :
               /\ mapin.bests1[r] \in DOMAIN mapin.bests2
               /\ mapin.bests2[mapin.bests1[r]] = r
          /\ \A c \in DOMAIN mapin.bests2 :
               /\ mapin.bests2[c] \in DOMAIN mapin.bests1
               /\ mapin.bests1[mapin.bests2[c]] = c)

----------------------------------------------------------------------------
(* utils.inspect: the forward hooks and the gradient flag around a pass. *)

MaxLenX == 2          \* SpecInspect: X holds 1..MaxLenX samples

\* The keys of model.named_modules(), and the keys a caller may ask for:
\* "outputs" is no module, it names the model's final output.
ModuleKeys == {"sequential.0", "sequential.1"}
InspKeys == ModuleKeys \cup {"outputs"}

\* Line 922: one pass over the whole of X, or passes over batches.
WholePass(a) == a.batch_size = None \/ Val(a.batch_size) > a.len_X

OtherVarsOfInspect ==
    UNCHANGED <<self, hyper_q, hyps, loc, model, optimizer, files, hist,
                stopin, optin, sweep, mapin>>

\* Lines 895-910: a forward hook is registered on every module that is
\* named in insp_keys, and its handle kept.
InspectRegister ==
    /\ pc = "inspect"
    /\ LET found == inspin.insp_keys \cap ModuleKeys
       IN  inspin' = [inspin EXCEPT
                        !.handles = found,
                        !.forward_hooks = [k \in ModuleKeys |->
                                             IF k \in found THEN @[k] + 1
                                             ELSE @[k]],
                        !.insp_keys = found]
    /\ pc' = "inspect_grad"
    /\ OtherVarsOfInspect

\* Lines 914-919: the flag is saved and, for to_numpy or no_grad, turned
\* off.
InspectGrad ==
    /\ pc = "inspect_grad"
    /\ inspin' = [inspin EXCEPT
                    !.prev_grad_state = Some(inspin.grad_enabled),
                    !.grad_enabled = IF inspin.to_numpy \/ inspin.no_grad
                                     THEN FALSE ELSE @]
    /\ pc' = "inspect_forward"
    /\ OtherVarsOfInspect

\* Lines 921-954: a forward pass that succeeds, over X or over the next
\* batch of it; the hooks fill layer_outs.
InspectForward ==
    /\ pc = "inspect_forward"
    /\ IF WholePass(inspin)
       THEN /\ inspin' = [inspin EXCEPT
                            !.layer_outs = inspin.insp_keys \cup {"outputs"}]
            /\ pc' = "inspect_restore"
       ELSE LET nxt == inspin.batch + Val(inspin.batch_size)
            IN  /\ inspin' = [inspin EXCEPT
                                !.batch = nxt,
                                !.layer_outs = inspin.insp_keys \cup {"outputs"}]
                /\ pc' = IF nxt >= inspin.len_X THEN "inspect_restore"
                         ELSE "inspect_forward"
    /\ OtherVarsOfInspect

\* Lines 955-958: a forward pass that raises RuntimeError (a shape that
\* does not fit, memory that runs out): the handler prints and raises a
\* new RuntimeError, which leaves inspect.
InspectForwardRaises ==
    /\ pc = "inspect_forward"
    /\ inspin' = [inspin EXCEPT !.exc = "RuntimeError"]
    /\ pc' = "inspect_raised"
    /\ OtherVarsOfInspect

\* Lines 963-971: the flag is set back, the hooks are removed and
\* layer_outs is returned.
InspectRestore ==
    /\ pc = "inspect_restore"
    /\ inspin' = [inspin EXCEPT
                    !.grad_enabled = Val(inspin.prev_grad_state),
                    !.forward_hooks = [k \in ModuleKeys |->
                                         IF k \in inspin.handles THEN @[k] - 1
                                         ELSE @[k]],
                    !.handles = {}]
    /\ pc' = "inspect_return"
    /\ OtherVarsOfInspect

----------------------------------------------------------------------------
(* SpecInspect: one call of utils.inspect, for every argument. *)

InitInspect ==
    /\ \E keys \in SUBSET InspKeys, to_numpy \in BOOLEAN, no_grad \in BOOLEAN,
          grad \in BOOLEAN, len_X \in 1..MaxLenX,
          batch_size \in {None} \cup { Some(b) : b \in 1..(MaxLenX + 1) } :
         inspin = [insp_keys |-> keys, to_numpy |-> to_numpy,
                   no_grad |-> no_grad, batch_size |-> batch_size,
                   len_X |-> len_X,
                   grad_enabled |-> grad, entry_grad |-> grad,
                   forward_hooks |-> [k \in ModuleKeys |-> 0],
                   handles |-> {}, prev_grad_state |-> None,
                   layer_outs |-> {}, batch |-> 0, exc |-> ""]
    /\ pc = "inspect"
    /\ self = TrainerInit(0, 0)
    /\ hyper_q = <<>>
    /\ hyps = NoHyps
    /\ loc = NoLoc
    /\ model = NoModel
    /\ optimizer = NoOptimizer
    /\ files = NoFiles
    /\ hist = NoHist
    /\ stopin = NoStopIn
    /\ optin = None
    /\ sweep = None
    /\ mapin = None

NextInspect ==
    \/ InspectRegister
    \/ InspectGrad
    \/ InspectForward
    \/ InspectForwardRaises
    \/ InspectRestore

SpecInspect == InitInspect /\ [][NextInspect]_vars

\* C38: when inspect is left, by its return or by the RuntimeError it
\* raises again, the gradient flag of the process has the value it had at
\* entry and none of the forward hooks inspect registered is still on the
\* model.
C38_InspectRestoresGradAndHooks ==
    pc \in {"inspect_return", "inspect_raised"} =>
        /\ inspin.grad_enabled = inspin.entry_grad
        /\ \A k \in ModuleKeys : inspin.forward_hooks[k] = 0

====
